---- MODULE Spec2Model ----
(***************************************************************************)
(* Chord DHT node (cd2024-guiao-2-team_104063/DHTNode.py): the node state  *)
(* machine, its finger table and the datagram transport it runs over.      *)
(*                                                                         *)
(* Addresses, keys and values are small integers.  A node is named by its  *)
(* address; its identifier is dht_hash of the address.  The transport is   *)
(* UDP: the set net holds the datagrams in flight, delivered in any order  *)
(* and possibly lost.                                                      *)
(*                                                                         *)
(* The repository's two connection-multiplexing services follow the node:  *)
(* the chat server (cd2024-guiao-1-team_104063/src/server.py) and the      *)
(* publish/subscribe broker (cd2024-guiao-3-team_104063/src/broker.py).    *)
(* Each is one selector loop; a connection is a small integer, the socket  *)
(* object accept() returned.                                               *)
(***************************************************************************)
EXTENDS Integers, Sequences, FiniteSets, TLC

\* ------------------------------------------------------------------ bounds

\* Bits of the identifier space (m_bits; 10 in the code, scaled down here).
MBits == 2
\* Nodes of the join scenario: node 1 is the singleton, node 2 joins through it.
JoinNodes == 2
\* Stabilization timeouts (main-loop receive timeouts) of the join scenario.
JoinTimeouts == 2
\* Datagrams the network may lose in the join scenario.
JoinLosses == 1

\* Nodes of the ring scenario: node 1 is the singleton, the others join through it.
RingNodes == 3
\* Stabilization timeouts of the ring scenario.
RingTimeouts == 1
\* Client PUT and GET requests of the ring scenario.
RingRequests == 2
\* Keys and values the clients use.
NumKeys == 1
NumValues == 2

\* Stabilization timeouts and foreign datagrams of the foreign-sender scenario.
ForeignTimeouts == 1
ForeignDatagrams == 1

\* Connections the chat server accepts.
ChatConns == 3

\* Connections the broker accepts and requests it processes.
BrokerClients == 2
BrokerRequests == 4

\* Python's None.
None == 0 - 1

RingSize == 2 ^ MBits

\* ----------------------------------------------------------- ring arithmetic

\* utils.dht_hash: a fixed deterministic map of a text into [0, 2^m).
dht_hash(text) == (3 * text + 1) % RingSize

\* A faulty contains that includes the origin of the interval.
containsOrigin(begin, end, node) ==
    IF begin < end
    THEN begin <= node /\ node <= end
    ELSE IF end < begin
         THEN node >= begin \/ node <= end
         ELSE FALSE

\* utils.contains(begin, end, node): node lies in the clockwise interval
\* (begin, end], wrapping past the modulus when end < begin.
contains(begin, end, node) ==
    IF begin < end
    THEN begin < node /\ node <= end
    ELSE IF end < begin
         THEN node > begin \/ node <= end
         ELSE FALSE

\* The order comparisons of contains raise TypeError on None.
containsRaises(begin, end, node) == begin = None \/ end = None \/ node = None

\* ------------------------------------------------------------- finger table

\* FingerTable.__init__: m entries (node_id, node_addr).
NewFingerTable(node_id, node_addr) == [i \in 1..MBits |-> <<node_id, node_addr>>]

\* FingerTable.fill
fill(ft, node_id, node_addr) == [i \in 1..MBits |-> <<node_id, node_addr>>]

\* FingerTable.update (index is 1-based and in 1..m here)
update(ft, index, node_id, node_addr) == [ft EXCEPT ![index] = <<node_id, node_addr>>]

\* FingerTable.find: the first entry i (0-based) whose id satisfies contains
\* gives finger_table[i-1][1]; Python's index -1 is the last entry.
find(ft, self_id, identification) ==
    LET hits == {i \in 1..MBits : contains(self_id, ft[i][1], identification)}
    IN  IF hits = {}
        THEN ft[MBits][2]
        ELSE LET i == CHOOSE j \in hits : \A k \in hits : j <= k
             IN  IF i = 1 THEN ft[MBits][2] ELSE ft[i - 1][2]

\* The ring position entry index (1-based) tracks.
FingerTarget(self_id, index) == (self_id + 2 ^ (index - 1)) % RingSize

\* FingerTable.refresh
refresh(ft, self_id) == [i \in 1..MBits |-> <<i, FingerTarget(self_id, i), ft[i][2]>>]

\* A faulty getIdxFromId that returns the 0-based index of the loop.
getIdxFromIdZeroBased(self_id, id) ==
    LET hits == {i \in 1..MBits : contains(self_id, FingerTarget(self_id, i), id)}
    IN  IF hits = {} THEN None ELSE (CHOOSE j \in hits : \A k \in hits : j <= k) - 1

\* FingerTable.getIdxFromId: None when no index covers id.
getIdxFromId(self_id, id) ==
    LET hits == {i \in 1..MBits : contains(self_id, FingerTarget(self_id, i), id)}
    IN  IF hits = {} THEN None ELSE CHOOSE j \in hits : \A k \in hits : j <= k

\* ------------------------------------------------------------------- state

VARIABLES
    pc,               \* each node's thread: new (constructed, not started), join_send,
                      \* join_recv, main, stopped (run returned), crashed (an exception ended run)
    inside_dht,
    done,
    successor_id,
    successor_addr,
    predecessor_id,
    predecessor_addr,
    finger_table,
    keystore,         \* per node: a function from the stored keys to their values
    net,              \* datagrams in flight
    replies,          \* ACK / NACK datagrams sent so far, in order
    timeouts,         \* main-loop receive timeouts so far
    losses,           \* datagrams lost so far
    requests,         \* client requests and foreign datagrams injected so far
    call,             \* a call of a FingerTable method or of contains on its own:
                      \* the function, its arguments and, once returned, its result
    channels,         \* chat server: Server.channels, channel name -> list of connections
    server_selector,  \* chat server: the client connections registered with Server.selector
    server_closed,    \* chat server: the connections the server has closed
    server_accepted,  \* chat server: connections accepted so far
    server_sent,      \* chat server: the connections the last handled message was sent to
    subscriptions,    \* broker: Broker.subscriptions in insertion order, a list of
                      \* (topic, list of (client, serializer))
    topics,           \* broker: Broker.topics, topic -> last value published
    broker_selector,  \* broker: the client connections registered with Broker.selector
    broker_closed,    \* broker: the connections the broker has closed
    broker_accepted,  \* broker: connections accepted so far
    broker_handled,   \* broker: requests processed so far
    broker_sent,      \* broker: the sends of the last publish, a list of (client, serializer)
    subscribed        \* broker: the subscriptions in force, (client, topic, serializer):
                      \* asked for and neither unsubscribed nor dropped on disconnect

chatVars == <<channels, server_selector, server_closed, server_accepted, server_sent>>

brokerVars == <<subscriptions, topics, broker_selector, broker_closed, broker_accepted,
                broker_handled, broker_sent, subscribed>>

vars == <<pc, inside_dht, done, successor_id, successor_addr, predecessor_id,
          predecessor_addr, finger_table, keystore, net, replies, timeouts,
          losses, requests, call, chatVars, brokerVars>>

nodeVars == <<inside_dht, successor_id, successor_addr, predecessor_id,
              predecessor_addr, finger_table, keystore>>

budgetVars == <<timeouts, losses, requests>>

Nodes == DOMAIN pc

\* DHTNode.identification
identification(n) == dht_hash(n)

\* The bootstrap address a node is constructed with: node 1 has none.
dht_address(n) == IF n = 1 THEN None ELSE 1

EmptyStore == [k \in {} |-> None]

\* A datagram: the pickled {method, args} with its destination and sender.
Msg(dst, src, method, args) == [dst |-> dst, src |-> src, method |-> method, args |-> args]

\* DHTNode.send of several datagrams; a datagram to an address where no socket
\* is bound yet (run() binds it) is dropped.
Send(msgs) == net \cup {m \in msgs : m.dst \in Nodes /\ pc[m.dst] # "new"}

\* The datagrams in flight after a node has received m and sent msgs.
Received(m, msgs) == (net \ {m}) \cup {x \in msgs : x.dst \in Nodes /\ pc[x.dst] # "new"}

\* No chat server is constructed.
NoServer ==
    /\ channels = <<>>
    /\ server_selector = {}
    /\ server_closed = {}
    /\ server_accepted = 0
    /\ server_sent = <<>>

\* No broker is constructed.
NoBroker ==
    /\ subscriptions = <<>>
    /\ topics = <<>>
    /\ broker_selector = {}
    /\ broker_closed = {}
    /\ broker_accepted = 0
    /\ broker_handled = 0
    /\ broker_sent = <<>>
    /\ subscribed = {}

\* No call of a function on its own is under way.
NoCall == [fn |-> "none", args |-> <<>>, returned |-> FALSE, result |-> None]

\* A faulty constructor that leaves every node outside the DHT with no successor.
InitNodesAllJoining(n) ==
    /\ pc = [a \in 1..n |-> "new"]
    /\ inside_dht = [a \in 1..n |-> FALSE]
    /\ done = [a \in 1..n |-> FALSE]
    /\ successor_id = [a \in 1..n |-> None]
    /\ successor_addr = [a \in 1..n |-> None]
    /\ predecessor_id = [a \in 1..n |-> None]
    /\ predecessor_addr = [a \in 1..n |-> None]
    /\ finger_table = [a \in 1..n |-> NewFingerTable(identification(a), a)]
    /\ keystore = [a \in 1..n |-> EmptyStore]
    /\ net = {}
    /\ replies = <<>>
    /\ timeouts = 0
    /\ losses = 0
    /\ requests = 0
    /\ call = NoCall
    /\ NoServer
    /\ NoBroker

\* DHTNode.__init__ for the nodes 1..n; no thread is started yet.
InitNodes(n) ==
    /\ pc = [a \in 1..n |-> "new"]
    /\ inside_dht = [a \in 1..n |-> dht_address(a) = None]
    /\ done = [a \in 1..n |-> FALSE]
    /\ successor_id = [a \in 1..n |-> IF dht_address(a) = None THEN identification(a) ELSE None]
    /\ successor_addr = [a \in 1..n |-> IF dht_address(a) = None THEN a ELSE None]
    /\ predecessor_id = [a \in 1..n |-> None]
    /\ predecessor_addr = [a \in 1..n |-> None]
    /\ finger_table = [a \in 1..n |-> NewFingerTable(identification(a), a)]
    /\ keystore = [a \in 1..n |-> EmptyStore]
    /\ net = {}
    /\ replies = <<>>
    /\ timeouts = 0
    /\ losses = 0
    /\ requests = 0
    /\ call = NoCall
    /\ NoServer
    /\ NoBroker

\* ----------------------------------------------------------- the join loop

\* Thread.start(): run() binds the socket and tests inside_dht.
Start(n) ==
    /\ pc[n] = "new"
    /\ pc' = [pc EXCEPT ![n] = IF inside_dht[n] THEN "main" ELSE "join_send"]
    /\ UNCHANGED <<nodeVars, done, net, replies, budgetVars, call, chatVars, brokerVars>>

\* run(), join loop: send JOIN_REQ to the bootstrap address.
JoinSend(n) ==
    /\ pc[n] = "join_send"
    /\ net' = Send({Msg(dht_address(n), n, "JOIN_REQ", <<identification(n), n>>)})
    /\ pc' = [pc EXCEPT ![n] = "join_recv"]
    /\ UNCHANGED <<nodeVars, done, replies, budgetVars, call, chatVars, brokerVars>>

\* run(), join loop: recv() timed out; the loop tests inside_dht again.
JoinTimeout(n) ==
    /\ pc[n] = "join_recv"
    /\ pc' = [pc EXCEPT ![n] = "join_send"]
    /\ UNCHANGED <<nodeVars, done, net, replies, budgetVars, call, chatVars, brokerVars>>

\* A faulty join loop that becomes ACTIVE without taking the JOIN_REP's pair.
JoinRecvRepKeepsSuccessor(n) ==
    \E m \in net :
        /\ pc[n] = "join_recv"
        /\ m.dst = n
        /\ m.method = "JOIN_REP"
        /\ Len(m.args) = 2
        /\ inside_dht' = [inside_dht EXCEPT ![n] = TRUE]
        /\ pc' = [pc EXCEPT ![n] = "main"]
        /\ net' = net \ {m}
        /\ UNCHANGED <<successor_id, successor_addr, predecessor_id, predecessor_addr,
                       finger_table, keystore, done, replies, budgetVars, call, chatVars, brokerVars>>

\* run(), join loop: a JOIN_REP is processed.
JoinRecvRep(n) ==
    \E m \in net :
        /\ pc[n] = "join_recv"
        /\ m.dst = n
        /\ m.method = "JOIN_REP"
        /\ Len(m.args) = 2
        /\ successor_id' = [successor_id EXCEPT ![n] = m.args[1]]
        /\ successor_addr' = [successor_addr EXCEPT ![n] = m.args[2]]
        /\ finger_table' = [finger_table EXCEPT ![n] = fill(@, m.args[1], m.args[2])]
        /\ inside_dht' = [inside_dht EXCEPT ![n] = TRUE]
        /\ pc' = [pc EXCEPT ![n] = "main"]
        /\ net' = net \ {m}
        /\ UNCHANGED <<predecessor_id, predecessor_addr, keystore, done, replies, budgetVars, call, chatVars, brokerVars>>

\* A faulty join loop that takes any datagram for the admission.
JoinRecvOtherJoins(n) ==
    \E m \in net :
        /\ pc[n] = "join_recv"
        /\ m.dst = n
        /\ m.method \notin {"JOIN_REP", "<undecodable>"}
        /\ inside_dht' = [inside_dht EXCEPT ![n] = TRUE]
        /\ pc' = [pc EXCEPT ![n] = "main"]
        /\ net' = net \ {m}
        /\ UNCHANGED <<successor_id, successor_addr, predecessor_id, predecessor_addr,
                       finger_table, keystore, done, replies, budgetVars, call, chatVars, brokerVars>>

\* run(), join loop: any other decodable datagram is read and ignored.
JoinRecvOther(n) ==
    \E m \in net :
        /\ pc[n] = "join_recv"
        /\ m.dst = n
        /\ m.method \notin {"JOIN_REP", "<undecodable>"}
        /\ pc' = [pc EXCEPT ![n] = "join_send"]
        /\ net' = net \ {m}
        /\ UNCHANGED <<nodeVars, done, replies, budgetVars, call, chatVars, brokerVars>>

\* run(), join loop: pickle.loads raises on a payload that is no pickle, and
\* args["successor_id"] raises KeyError on a JOIN_REP without its fields; the
\* exception ends the thread.
JoinRecvBad(n) ==
    \E m \in net :
        /\ pc[n] = "join_recv"
        /\ m.dst = n
        /\ m.method = "<undecodable>" \/ (m.method = "JOIN_REP" /\ Len(m.args) # 2)
        /\ pc' = [pc EXCEPT ![n] = "crashed"]
        /\ net' = net \ {m}
        /\ UNCHANGED <<nodeVars, done, replies, budgetVars, call, chatVars, brokerVars>>

\* ----------------------------------------------------------- the main loop

\* A faulty node_join whose JOIN_REP names the new successor, not the old one.
node_joinNamesRequester(n, m) ==
    LET id == m.args[1]
        addr == m.args[2]
    IN  /\ pc[n] = "main" /\ ~done[n]
        /\ m.dst = n
        /\ m.method = "JOIN_REQ"
        /\ Len(m.args) = 2
        /\ \/ /\ identification(n) = successor_id[n]
              /\ successor_id' = [successor_id EXCEPT ![n] = id]
              /\ successor_addr' = [successor_addr EXCEPT ![n] = addr]
              /\ finger_table' = [finger_table EXCEPT ![n] = fill(@, id, addr)]
              /\ net' = Received(m, {Msg(addr, n, "JOIN_REP", <<identification(n), n>>)})
           \/ /\ identification(n) # successor_id[n]
              /\ contains(identification(n), successor_id[n], id)
              /\ successor_id' = [successor_id EXCEPT ![n] = id]
              /\ successor_addr' = [successor_addr EXCEPT ![n] = addr]
              /\ finger_table' = [finger_table EXCEPT ![n] = fill(@, id, addr)]
              /\ net' = Received(m, {Msg(addr, n, "JOIN_REP", <<id, addr>>)})
           \/ /\ identification(n) # successor_id[n]
              /\ ~contains(identification(n), successor_id[n], id)
              /\ net' = Received(m, {Msg(successor_addr[n], n, "JOIN_REQ", m.args)})
              /\ UNCHANGED <<successor_id, successor_addr, finger_table>>
        /\ UNCHANGED <<pc, inside_dht, done, predecessor_id, predecessor_addr,
                       keystore, replies, budgetVars, call, chatVars, brokerVars>>

\* DHTNode.node_join
node_join(n, m) ==
    LET id == m.args[1]
        addr == m.args[2]
    IN  /\ pc[n] = "main" /\ ~done[n]
        /\ m.dst = n
        /\ m.method = "JOIN_REQ"
        /\ Len(m.args) = 2
        /\ \/ /\ identification(n) = successor_id[n]
              /\ successor_id' = [successor_id EXCEPT ![n] = id]
              /\ successor_addr' = [successor_addr EXCEPT ![n] = addr]
              /\ finger_table' = [finger_table EXCEPT ![n] = fill(@, id, addr)]
              /\ net' = Received(m, {Msg(addr, n, "JOIN_REP", <<identification(n), n>>)})
           \/ /\ identification(n) # successor_id[n]
              /\ contains(identification(n), successor_id[n], id)
              /\ successor_id' = [successor_id EXCEPT ![n] = id]
              /\ successor_addr' = [successor_addr EXCEPT ![n] = addr]
              /\ finger_table' = [finger_table EXCEPT ![n] = fill(@, id, addr)]
              /\ net' = Received(m, {Msg(addr, n, "JOIN_REP",
                                         <<successor_id[n], successor_addr[n]>>)})
           \/ /\ identification(n) # successor_id[n]
              /\ ~contains(identification(n), successor_id[n], id)
              /\ net' = Received(m, {Msg(successor_addr[n], n, "JOIN_REQ", m.args)})
              /\ UNCHANGED <<successor_id, successor_addr, finger_table>>
        /\ UNCHANGED <<pc, inside_dht, done, predecessor_id, predecessor_addr,
                       keystore, replies, budgetVars, call, chatVars, brokerVars>>

\* The datagram DHTNode.get_successor sends for a lookup of asking_id.
SuccessorMsg(n, succ_id, succ_addr, asking_id, asking_addr) ==
    IF contains(identification(n), succ_id, asking_id)
    THEN Msg(asking_addr, n, "SUCCESSOR_REP", <<asking_id, succ_id, succ_addr>>)
    ELSE Msg(succ_addr, n, "SUCCESSOR", <<asking_id, asking_addr>>)

\* A faulty get_successor that answers the datagram's sender.
get_successorAnswersSender(n, m) ==
    /\ pc[n] = "main" /\ ~done[n]
    /\ m.dst = n
    /\ m.method = "SUCCESSOR"
    /\ Len(m.args) = 2
    /\ net' = Received(m, {SuccessorMsg(n, successor_id[n], successor_addr[n],
                                        m.args[1], m.src)})
    /\ UNCHANGED <<pc, nodeVars, done, replies, budgetVars, call, chatVars, brokerVars>>

\* DHTNode.get_successor, on a SUCCESSOR datagram
get_successor(n, m) ==
    /\ pc[n] = "main" /\ ~done[n]
    /\ m.dst = n
    /\ m.method = "SUCCESSOR"
    /\ Len(m.args) = 2
    /\ net' = Received(m, {SuccessorMsg(n, successor_id[n], successor_addr[n],
                                        m.args[1], m.args[2])})
    /\ UNCHANGED <<pc, nodeVars, done, replies, budgetVars, call, chatVars, brokerVars>>

\* A faulty notify that adopts every candidate.
notifyAdoptsAll(n, m) ==
    /\ pc[n] = "main" /\ ~done[n]
    /\ m.dst = n
    /\ m.method = "NOTIFY"
    /\ Len(m.args) = 2
    /\ predecessor_id' = [predecessor_id EXCEPT ![n] = m.args[1]]
    /\ predecessor_addr' = [predecessor_addr EXCEPT ![n] = m.args[2]]
    /\ net' = net \ {m}
    /\ UNCHANGED <<pc, inside_dht, done, successor_id, successor_addr, finger_table,
                   keystore, replies, budgetVars, call, chatVars, brokerVars>>

\* A faulty notify that gives up the keys a new predecessor is responsible for.
notifyHandsOverKeys(n, m) ==
    /\ pc[n] = "main" /\ ~done[n]
    /\ m.dst = n
    /\ m.method = "NOTIFY"
    /\ Len(m.args) = 2
    /\ IF predecessor_id[n] = None
          \/ contains(predecessor_id[n], identification(n), m.args[1])
       THEN /\ predecessor_id' = [predecessor_id EXCEPT ![n] = m.args[1]]
            /\ predecessor_addr' = [predecessor_addr EXCEPT ![n] = m.args[2]]
            /\ keystore' = [keystore EXCEPT ![n] =
                  [k \in {x \in DOMAIN @ : contains(m.args[1], identification(n), dht_hash(x))}
                      |-> @[k]]]
       ELSE UNCHANGED <<predecessor_id, predecessor_addr, keystore>>
    /\ net' = net \ {m}
    /\ UNCHANGED <<pc, inside_dht, done, successor_id, successor_addr, finger_table,
                   replies, budgetVars, call, chatVars, brokerVars>>

\* DHTNode.notify
notify(n, m) ==
    /\ pc[n] = "main" /\ ~done[n]
    /\ m.dst = n
    /\ m.method = "NOTIFY"
    /\ Len(m.args) = 2
    /\ IF predecessor_id[n] = None
          \/ contains(predecessor_id[n], identification(n), m.args[1])
       THEN /\ predecessor_id' = [predecessor_id EXCEPT ![n] = m.args[1]]
            /\ predecessor_addr' = [predecessor_addr EXCEPT ![n] = m.args[2]]
       ELSE UNCHANGED <<predecessor_id, predecessor_addr>>
    /\ net' = net \ {m}
    /\ UNCHANGED <<pc, inside_dht, done, successor_id, successor_addr, finger_table,
                   keystore, replies, budgetVars, call, chatVars, brokerVars>>

\* A faulty stabilize that notifies the successor it had before the update.
stabilizeNotifiesOld(n, m) ==
    LET from_id == m.args[1]
        tighten == from_id # None
                   /\ contains(identification(n), successor_id[n], from_id)
        succ_id == IF tighten THEN from_id ELSE successor_id[n]
        succ_addr == IF tighten THEN m.src ELSE successor_addr[n]
        ft == IF tighten THEN update(finger_table[n], 1, succ_id, succ_addr)
              ELSE finger_table[n]
        targets == refresh(ft, identification(n))
    IN  /\ pc[n] = "main" /\ ~done[n]
        /\ m.dst = n
        /\ m.method = "STABILIZE"
        /\ Len(m.args) = 1
        /\ successor_id' = [successor_id EXCEPT ![n] = succ_id]
        /\ successor_addr' = [successor_addr EXCEPT ![n] = succ_addr]
        /\ finger_table' = [finger_table EXCEPT ![n] = ft]
        /\ net' = Received(m, {Msg(successor_addr[n], n, "NOTIFY", <<identification(n), n>>)}
                              \cup {SuccessorMsg(n, succ_id, succ_addr, targets[i][2], n)
                                    : i \in 1..MBits})
        /\ UNCHANGED <<pc, inside_dht, done, predecessor_id, predecessor_addr,
                       keystore, replies, budgetVars, call, chatVars, brokerVars>>

\* DHTNode.stabilize, on a STABILIZE datagram: args is the reported predecessor
\* id, addr the datagram's sender.
stabilize(n, m) ==
    LET from_id == m.args[1]
        tighten == from_id # None
                   /\ contains(identification(n), successor_id[n], from_id)
        succ_id == IF tighten THEN from_id ELSE successor_id[n]
        succ_addr == IF tighten THEN m.src ELSE successor_addr[n]
        ft == IF tighten THEN update(finger_table[n], 1, succ_id, succ_addr)
              ELSE finger_table[n]
        targets == refresh(ft, identification(n))
    IN  /\ pc[n] = "main" /\ ~done[n]
        /\ m.dst = n
        /\ m.method = "STABILIZE"
        /\ Len(m.args) = 1
        /\ successor_id' = [successor_id EXCEPT ![n] = succ_id]
        /\ successor_addr' = [successor_addr EXCEPT ![n] = succ_addr]
        /\ finger_table' = [finger_table EXCEPT ![n] = ft]
        /\ net' = Received(m, {Msg(succ_addr, n, "NOTIFY", <<identification(n), n>>)}
                              \cup {SuccessorMsg(n, succ_id, succ_addr, targets[i][2], n)
                                    : i \in 1..MBits})
        /\ UNCHANGED <<pc, inside_dht, done, predecessor_id, predecessor_addr,
                       keystore, replies, budgetVars, call, chatVars, brokerVars>>

\* A faulty dispatch that reports the node's own id as its predecessor.
RecvPredecessorReportsSelf(n, m) ==
    /\ pc[n] = "main" /\ ~done[n]
    /\ m.dst = n
    /\ m.method = "PREDECESSOR"
    /\ net' = Received(m, {Msg(m.src, n, "STABILIZE", <<identification(n)>>)})
    /\ UNCHANGED <<pc, nodeVars, done, replies, budgetVars, call, chatVars, brokerVars>>

\* run(): PREDECESSOR is answered with STABILIZE carrying predecessor_id.
RecvPredecessor(n, m) ==
    /\ pc[n] = "main" /\ ~done[n]
    /\ m.dst = n
    /\ m.method = "PREDECESSOR"
    /\ net' = Received(m, {Msg(m.src, n, "STABILIZE", <<predecessor_id[n]>>)})
    /\ UNCHANGED <<pc, nodeVars, done, replies, budgetVars, call, chatVars, brokerVars>>

\* run(): SUCCESSOR_REP updates the finger entry that covers req_id.
SuccessorRep(n, m) ==
    LET index == getIdxFromId(identification(n), m.args[1])
    IN  /\ pc[n] = "main" /\ ~done[n]
        /\ m.dst = n
        /\ m.method = "SUCCESSOR_REP"
        /\ Len(m.args) = 3
        /\ IF index = None
           THEN \* update(None, ...) computes None - 1: TypeError ends the thread
                /\ pc' = [pc EXCEPT ![n] = "crashed"]
                /\ UNCHANGED finger_table
           ELSE /\ finger_table' = [finger_table EXCEPT
                                       ![n] = update(@, index, m.args[2], m.args[3])]
                /\ UNCHANGED pc
        /\ net' = net \ {m}
        /\ UNCHANGED <<inside_dht, done, successor_id, successor_addr, predecessor_id,
                       predecessor_addr, keystore, replies, budgetVars, call, chatVars, brokerVars>>

\* A faulty dispatch that always answers to the datagram's sender.
ReplyAddrIsSender(m, nargs) == m.src

\* The address a PUT or GET is answered to: args["from"], or the datagram's
\* sender when the request carries none.
ReplyAddr(m, nargs) == IF Len(m.args) = nargs + 1 THEN m.args[nargs + 1] ELSE m.src

\* An ACK or NACK as sent (method, args, destination), with the node that sent
\* it and the request it answers (PUT or GET, its key, the value of a PUT).
Reply(method, to, args, n, op, key, value) ==
    [method |-> method, to |-> to, args |-> args, node |-> n, op |-> op,
     key |-> key, value |-> value]

\* A faulty put that stores and acknowledges whether or not the key is present.
PutOwnerOverwrites(n, key, value, address) ==
    /\ keystore' = [keystore EXCEPT ![n] =
                       [k \in DOMAIN @ \cup {key} |-> IF k = key THEN value ELSE @[k]]]
    /\ replies' = Append(replies, Reply("ACK", address, None, n, "PUT", key, value))

\* A faulty put that answers NACK for a present key and yet replaces its value.
PutOwnerNackReplaces(n, key, value, address) ==
    /\ keystore' = [keystore EXCEPT ![n] =
                       [k \in DOMAIN @ \cup {key} |-> IF k = key THEN value ELSE @[k]]]
    /\ replies' = Append(replies,
          Reply(IF key \in DOMAIN keystore[n] THEN "NACK" ELSE "ACK",
                address, None, n, "PUT", key, value))

\* DHTNode.put at the node that owns the key: insert and ACK, or NACK.
PutOwner(n, key, value, address) ==
    IF key \notin DOMAIN keystore[n]
    THEN /\ keystore' = [keystore EXCEPT ![n] =
                            [k \in DOMAIN @ \cup {key} |-> IF k = key THEN value ELSE @[k]]]
         /\ replies' = Append(replies, Reply("ACK", address, None, n, "PUT", key, value))
    ELSE /\ replies' = Append(replies, Reply("NACK", address, None, n, "PUT", key, value))
         /\ UNCHANGED keystore

\* A faulty get that acknowledges a missing key with an empty value.
GetOwnerAcksMissing(n, key, address) ==
    replies' = Append(replies,
        Reply("ACK", address, IF key \in DOMAIN keystore[n] THEN keystore[n][key] ELSE None,
              n, "GET", key, None))

\* DHTNode.get at the node that owns the key: ACK with the value, or NACK.
GetOwner(n, key, address) ==
    replies' = Append(replies,
        IF key \in DOMAIN keystore[n]
        THEN Reply("ACK", address, keystore[n][key], n, "GET", key, None)
        ELSE Reply("NACK", address, None, n, "GET", key, None))

\* DHTNode.put, the if / elif / else on key_hash: the branch taken and the
\* address the request is sent to; contains raises on a predecessor_id None.
put_branch(n, key_hash) ==
    IF contains(identification(n), successor_id[n], key_hash)
    THEN [branch |-> "successor", to |-> successor_addr[n]]
    ELSE IF containsRaises(predecessor_id[n], identification(n), key_hash)
    THEN [branch |-> "raise", to |-> None]
    ELSE IF contains(predecessor_id[n], identification(n), key_hash)
    THEN [branch |-> "owner", to |-> None]
    ELSE [branch |-> "finger", to |-> find(finger_table[n], identification(n), key_hash)]

\* DHTNode.put, on a PUT datagram
put(n, m) ==
    LET key == m.args[1]
        value == m.args[2]
        address == ReplyAddr(m, 2)
        route == put_branch(n, dht_hash(key))
    IN  /\ pc[n] = "main" /\ ~done[n]
        /\ m.dst = n
        /\ m.method = "PUT"
        /\ Len(m.args) \in {2, 3}
        /\ IF route.branch = "raise"
           THEN /\ pc' = [pc EXCEPT ![n] = "crashed"]
                /\ net' = net \ {m}
                /\ UNCHANGED <<keystore, replies>>
           ELSE IF route.branch = "owner"
           THEN /\ PutOwner(n, key, value, address)
                /\ net' = net \ {m}
                /\ UNCHANGED pc
           ELSE /\ net' = Received(m, {Msg(route.to, n, "PUT", <<key, value, address>>)})
                /\ UNCHANGED <<pc, keystore, replies>>
        /\ UNCHANGED <<inside_dht, done, successor_id, successor_addr, predecessor_id,
                       predecessor_addr, finger_table, budgetVars, call, chatVars, brokerVars>>

\* A faulty get that passes a request it cannot place on to its successor.
get_branchToSuccessor(n, key_hash) ==
    IF contains(identification(n), successor_id[n], key_hash)
    THEN [branch |-> "successor", to |-> successor_addr[n]]
    ELSE IF containsRaises(predecessor_id[n], identification(n), key_hash)
    THEN [branch |-> "raise", to |-> None]
    ELSE IF contains(predecessor_id[n], identification(n), key_hash)
    THEN [branch |-> "owner", to |-> None]
    ELSE [branch |-> "finger", to |-> successor_addr[n]]

\* DHTNode.get, the if / elif / else on key_hash: the branch taken and the
\* address the request is sent to; contains raises on a predecessor_id None.
get_branch(n, key_hash) ==
    IF contains(identification(n), successor_id[n], key_hash)
    THEN [branch |-> "successor", to |-> successor_addr[n]]
    ELSE IF containsRaises(predecessor_id[n], identification(n), key_hash)
    THEN [branch |-> "raise", to |-> None]
    ELSE IF contains(predecessor_id[n], identification(n), key_hash)
    THEN [branch |-> "owner", to |-> None]
    ELSE [branch |-> "finger", to |-> find(finger_table[n], identification(n), key_hash)]

\* DHTNode.get, on a GET datagram
get(n, m) ==
    LET key == m.args[1]
        address == ReplyAddr(m, 1)
        route == get_branch(n, dht_hash(key))
    IN  /\ pc[n] = "main" /\ ~done[n]
        /\ m.dst = n
        /\ m.method = "GET"
        /\ Len(m.args) \in {1, 2}
        /\ IF route.branch = "raise"
           THEN /\ pc' = [pc EXCEPT ![n] = "crashed"]
                /\ net' = net \ {m}
                /\ UNCHANGED replies
           ELSE IF route.branch = "owner"
           THEN /\ GetOwner(n, key, address)
                /\ net' = net \ {m}
                /\ UNCHANGED pc
           ELSE /\ net' = Received(m, {Msg(route.to, n, "GET", <<key, address>>)})
                /\ UNCHANGED <<pc, replies>>
        /\ UNCHANGED <<nodeVars, done, budgetVars, call, chatVars, brokerVars>>

\* run(): recv() timed out in the main loop; ask the successor for its predecessor.
Timeout(n, max) ==
    /\ pc[n] = "main" /\ ~done[n]
    /\ timeouts < max
    /\ timeouts' = timeouts + 1
    /\ net' = Send({Msg(successor_addr[n], n, "PREDECESSOR", <<>>)})
    /\ UNCHANGED <<pc, nodeVars, done, replies, losses, requests, call, chatVars, brokerVars>>

\* recv() returns (None, addr) for a zero-length payload, and run() takes the
\* branch of the timeout: it asks the successor for its predecessor.
RecvEmpty(n, m) ==
    /\ pc[n] = "main" /\ ~done[n]
    /\ m.dst = n
    /\ m.method = "<empty>"
    /\ net' = Received(m, {Msg(successor_addr[n], n, "PREDECESSOR", <<>>)})
    /\ UNCHANGED <<pc, nodeVars, done, replies, budgetVars, call, chatVars, brokerVars>>

\* A faulty main loop that adopts the successor of a JOIN_REP it reads.
IgnoreAdoptsJoinRep(n, m) ==
    /\ pc[n] = "main" /\ ~done[n]
    /\ m.dst = n
    /\ m.method \in {"JOIN_REP", "ACK", "NACK", "<unknown verb>"}
    /\ net' = net \ {m}
    /\ IF m.method = "JOIN_REP" /\ Len(m.args) = 2
       THEN /\ successor_id' = [successor_id EXCEPT ![n] = m.args[1]]
            /\ successor_addr' = [successor_addr EXCEPT ![n] = m.args[2]]
       ELSE UNCHANGED <<successor_id, successor_addr>>
    /\ UNCHANGED <<pc, inside_dht, predecessor_id, predecessor_addr, finger_table,
                   keystore, done, replies, budgetVars, call, chatVars, brokerVars>>

\* run(): a decodable datagram whose method no branch of the main loop matches.
Ignore(n, m) ==
    /\ pc[n] = "main" /\ ~done[n]
    /\ m.dst = n
    /\ m.method \in {"JOIN_REP", "ACK", "NACK", "<unknown verb>"}
    /\ net' = net \ {m}
    /\ UNCHANGED <<pc, nodeVars, done, replies, budgetVars, call, chatVars, brokerVars>>

\* The verbs whose branch of the main loop reads output["args"] or its fields.
ArgVerbs == {"JOIN_REQ", "NOTIFY", "PUT", "GET", "SUCCESSOR", "STABILIZE", "SUCCESSOR_REP"}

\* run(), main loop: pickle.loads raises on a payload that is no pickle, and a
\* branch raises KeyError on args without its fields; the exception ends the thread.
RecvBad(n, m) ==
    /\ pc[n] = "main" /\ ~done[n]
    /\ m.dst = n
    /\ m.method = "<undecodable>" \/ (m.method \in ArgVerbs /\ Len(m.args) = 0)
    /\ pc' = [pc EXCEPT ![n] = "crashed"]
    /\ net' = net \ {m}
    /\ UNCHANGED <<nodeVars, done, replies, budgetVars, call, chatVars, brokerVars>>

\* Another thread sets the node's done flag.
SetDone(n) ==
    /\ ~done[n]
    /\ done' = [done EXCEPT ![n] = TRUE]
    /\ UNCHANGED <<pc, nodeVars, net, replies, budgetVars, call, chatVars, brokerVars>>

\* run(), main loop: "while not self.done" ends the loop and run() returns.
Stop(n) ==
    /\ pc[n] = "main" /\ done[n]
    /\ pc' = [pc EXCEPT ![n] = "stopped"]
    /\ UNCHANGED <<nodeVars, done, net, replies, budgetVars, call, chatVars, brokerVars>>

\* The transport loses a datagram; one sent to a thread that has ended is never read.
Lose(m, max) ==
    /\ losses < max
    /\ losses' = losses + 1
    /\ net' = net \ {m}
    /\ UNCHANGED <<pc, nodeVars, done, replies, timeouts, requests, call, chatVars, brokerVars>>

\* ------------------------------------------------------------ environment

\* The address of the client that issues PUT and GET requests.
Client == RingNodes + 1

\* The texts used as keys, and the values stored.
Keys == (RingNodes + 1)..(RingNodes + NumKeys)
Values == 1..NumValues

\* A client sends PUT {key, value} to a node; the request carries no "from".
ClientPut(n, key, value, max) ==
    /\ requests < max
    /\ requests' = requests + 1
    /\ net' = Send({Msg(n, Client, "PUT", <<key, value>>)})
    /\ UNCHANGED <<pc, nodeVars, done, replies, timeouts, losses, call, chatVars, brokerVars>>

\* A client sends GET {key} to a node.
ClientGet(n, key, max) ==
    /\ requests < max
    /\ requests' = requests + 1
    /\ net' = Send({Msg(n, Client, "GET", <<key>>)})
    /\ UNCHANGED <<pc, nodeVars, done, replies, timeouts, losses, call, chatVars, brokerVars>>

\* A foreign sender's datagram reaches a node: a payload that is no pickle, an
\* unknown verb, or a known verb without its args.
Foreign(n, method, max) ==
    /\ requests < max
    /\ requests' = requests + 1
    /\ net' = Send({Msg(n, Client, method, <<>>)})
    /\ UNCHANGED <<pc, nodeVars, done, replies, timeouts, losses, call, chatVars, brokerVars>>

\* A foreign sender's SUCCESSOR_REP for any req_id, naming some node.
ForeignSuccessorRep(n, req_id, a, max) ==
    /\ requests < max
    /\ requests' = requests + 1
    /\ net' = Send({Msg(n, Client, "SUCCESSOR_REP", <<req_id, identification(a), a>>)})
    /\ UNCHANGED <<pc, nodeVars, done, replies, timeouts, losses, call, chatVars, brokerVars>>

\* A foreign sender sends a JOIN_REQ that names any identifier and the address
\* of a node.
ForeignJoinReq(n, id, a, max) ==
    /\ requests < max
    /\ requests' = requests + 1
    /\ net' = Send({Msg(n, Client, "JOIN_REQ", <<id, a>>)})
    /\ UNCHANGED <<pc, nodeVars, done, replies, timeouts, losses, call, chatVars, brokerVars>>

\* A foreign sender sends a SUCCESSOR lookup of any identifier, to be answered
\* to the address of a node.
ForeignSuccessor(n, id, a, max) ==
    /\ requests < max
    /\ requests' = requests + 1
    /\ net' = Send({Msg(n, Client, "SUCCESSOR", <<id, a>>)})
    /\ UNCHANGED <<pc, nodeVars, done, replies, timeouts, losses, call, chatVars, brokerVars>>

\* --------------------------------------------------- the ring specification

\* Clockwise distance from identifier a to identifier b.
Dist(a, b) == (b - a + RingSize) % RingSize

\* In the ring made of the nodes S: the node that owns identifier t, and the
\* nodes after and before n.
OwnerIn(S, t) ==
    CHOOSE x \in S : \A y \in S : Dist(t, identification(x)) <= Dist(t, identification(y))
SuccIn(S, n) == OwnerIn(S, (identification(n) + 1) % RingSize)
PredIn(S, n) == CHOOSE x \in S : SuccIn(S, x) = n

\* The nodes that have joined and stabilized when the ring scenario begins.
Joined == {1, 2}

\* Nodes 1 and 2 have run the join handshake and their stabilization rounds,
\* and every datagram of those has been handled: successors, predecessors and
\* finger entries are those of the two-node ring.  The other nodes are
\* constructed and not started.
InitRing ==
    /\ pc = [a \in 1..RingNodes |-> IF a \in Joined THEN "main" ELSE "new"]
    /\ inside_dht = [a \in 1..RingNodes |-> a \in Joined]
    /\ done = [a \in 1..RingNodes |-> FALSE]
    /\ successor_id = [a \in 1..RingNodes |->
            IF a \in Joined THEN identification(SuccIn(Joined, a)) ELSE None]
    /\ successor_addr = [a \in 1..RingNodes |->
            IF a \in Joined THEN SuccIn(Joined, a) ELSE None]
    /\ predecessor_id = [a \in 1..RingNodes |->
            IF a \in Joined THEN identification(PredIn(Joined, a)) ELSE None]
    /\ predecessor_addr = [a \in 1..RingNodes |->
            IF a \in Joined THEN PredIn(Joined, a) ELSE None]
    /\ finger_table = [a \in 1..RingNodes |->
            IF a \in Joined
            THEN [i \in 1..MBits |->
                    LET o == OwnerIn(Joined, FingerTarget(identification(a), i))
                    IN  <<identification(o), o>>]
            ELSE NewFingerTable(identification(a), a)]
    /\ keystore = [a \in 1..RingNodes |-> EmptyStore]
    /\ net = {}
    /\ replies = <<>>
    /\ timeouts = 0
    /\ losses = 0
    /\ requests = 0
    /\ call = NoCall
    /\ NoServer
    /\ NoBroker

NextRing ==
    \/ \E n \in Nodes : Start(n)
    \/ \E n \in Nodes : JoinSend(n)
    \/ \E n \in Nodes : JoinTimeout(n)
    \/ \E n \in Nodes : JoinRecvRep(n)
    \/ \E n \in Nodes : JoinRecvOther(n)
    \/ \E n \in Nodes, m \in net : node_join(n, m)
    \/ \E n \in Nodes, m \in net : get_successor(n, m)
    \/ \E n \in Nodes, m \in net : notify(n, m)
    \/ \E n \in Nodes, m \in net : stabilize(n, m)
    \/ \E n \in Nodes, m \in net : RecvPredecessor(n, m)
    \/ \E n \in Nodes, m \in net : SuccessorRep(n, m)
    \/ \E n \in Nodes, m \in net : put(n, m)
    \/ \E n \in Nodes, m \in net : get(n, m)
    \/ \E n \in Nodes, m \in net : Ignore(n, m)
    \/ \E n \in Nodes : Timeout(n, RingTimeouts)
    \/ \E n \in Nodes, k \in Keys, v \in Values : ClientPut(n, k, v, RingRequests)
    \/ \E n \in Nodes, k \in Keys : ClientGet(n, k, RingRequests)

SpecRing == InitRing /\ [][NextRing]_vars

\* --------------------------------------------------- the join specification

InitJoin == InitNodes(JoinNodes)

NextJoin ==
    \/ \E n \in Nodes : Start(n)
    \/ \E n \in Nodes : JoinSend(n)
    \/ \E n \in Nodes : JoinTimeout(n)
    \/ \E n \in Nodes : JoinRecvRep(n)
    \/ \E n \in Nodes : JoinRecvOther(n)
    \/ \E n \in Nodes, m \in net : node_join(n, m)
    \/ \E n \in Nodes, m \in net : get_successor(n, m)
    \/ \E n \in Nodes, m \in net : notify(n, m)
    \/ \E n \in Nodes, m \in net : stabilize(n, m)
    \/ \E n \in Nodes, m \in net : RecvPredecessor(n, m)
    \/ \E n \in Nodes, m \in net : SuccessorRep(n, m)
    \/ \E n \in Nodes, m \in net : Ignore(n, m)
    \/ \E n \in Nodes : Timeout(n, JoinTimeouts)
    \/ \E m \in net : Lose(m, JoinLosses)

SpecJoin == InitJoin /\ [][NextJoin]_vars

\* ----------------------------------------------- the liveness specification

NextLive ==
    \/ NextJoin
    \/ \E n \in Nodes : SetDone(n)
    \/ \E n \in Nodes : Stop(n)

\* The JOIN_REQ datagrams the nodes 1..JoinNodes can send or pass on.
JoinRequests ==
    {Msg(dst, src, "JOIN_REQ", <<identification(a), a>>)
        : dst \in 1..JoinNodes, src \in 1..JoinNodes, a \in 1..JoinNodes}

\* Every thread keeps running: a started thread takes its next step, recv()
\* returns (with a datagram or on its timeout), and every JOIN_REQ that stays
\* in flight to a node in its main loop is delivered.
Fairness ==
    /\ \A n \in 1..JoinNodes :
          /\ WF_vars(Start(n))
          /\ WF_vars(JoinSend(n))
          /\ WF_vars(JoinTimeout(n) \/ JoinRecvRep(n) \/ JoinRecvOther(n))
          /\ WF_vars(Stop(n))
          /\ SF_vars(JoinRecvRep(n))
    /\ \A m \in JoinRequests : WF_vars(m \in net /\ node_join(m.dst, m))

SpecLive == InitJoin /\ [][NextLive]_vars /\ Fairness

\* -------------------------------------------- the convergence specification

\* run(): recv() timed out in the main loop, any number of times, each time with
\* no datagram waiting for the node: the node asks its successor for its
\* predecessor, which starts a stabilization round.
StabilizeRound(n) ==
    /\ pc[n] = "main" /\ ~done[n]
    /\ \A m \in net : m.dst # n
    /\ net' = Send({Msg(successor_addr[n], n, "PREDECESSOR", <<>>)})
    /\ UNCHANGED <<pc, nodeVars, done, replies, budgetVars, call, chatVars, brokerVars>>

\* run(), main loop: the branch that handles datagram m at node n.
Handle(n, m) ==
    \/ node_join(n, m)
    \/ get_successor(n, m)
    \/ notify(n, m)
    \/ stabilize(n, m)
    \/ RecvPredecessor(n, m)
    \/ SuccessorRep(n, m)
    \/ Ignore(n, m)

NextConverge ==
    \/ \E n \in Nodes : Start(n)
    \/ \E n \in Nodes : JoinSend(n)
    \/ \E n \in Nodes : JoinTimeout(n)
    \/ \E n \in Nodes : JoinRecvRep(n)
    \/ \E n \in Nodes : JoinRecvOther(n)
    \/ \E n \in Nodes, m \in net : Handle(n, m)
    \/ \E n \in Nodes : StabilizeRound(n)

\* The datagrams the nodes 1..JoinNodes can send to each other.
Datagrams ==
    LET N == 1..JoinNodes
        Ids == 0..(RingSize - 1)
        Args(method) ==
            CASE method \in {"JOIN_REQ", "NOTIFY"} -> {<<identification(a), a>> : a \in N}
              [] method = "JOIN_REP" -> {<<i, a>> : i \in Ids, a \in N}
              [] method = "STABILIZE" -> {<<p>> : p \in Ids \cup {None}}
              [] method = "PREDECESSOR" -> {<<>>}
              [] method = "SUCCESSOR" -> {<<t, a>> : t \in Ids, a \in N}
              [] method = "SUCCESSOR_REP" -> {<<t, i, a>> : t \in Ids, i \in Ids, a \in N}
    IN  UNION {{Msg(dst, src, method, args) : dst \in N, src \in N, args \in Args(method)}
               : method \in {"JOIN_REQ", "JOIN_REP", "NOTIFY", "STABILIZE", "PREDECESSOR",
                              "SUCCESSOR", "SUCCESSOR_REP"}}

\* Every thread keeps running, every receive timeout of the main loop keeps
\* occurring, a JOIN_REP that keeps arriving is read by the join loop, and every
\* datagram in flight to a node in its main loop is delivered.
FairConverge ==
    /\ \A n \in 1..JoinNodes :
          /\ WF_vars(Start(n))
          /\ WF_vars(JoinSend(n))
          /\ WF_vars(JoinTimeout(n) \/ JoinRecvRep(n) \/ JoinRecvOther(n))
          /\ SF_vars(JoinRecvRep(n))
          /\ SF_vars(StabilizeRound(n))
    /\ \A m \in Datagrams : WF_vars(m \in net /\ Handle(m.dst, m))

SpecConverge == InitJoin /\ [][NextConverge]_vars /\ FairConverge

\* ------------------------------------------ the foreign-sender specification

\* The methods of the foreign datagrams.
ForeignMethods ==
    {"<undecodable>", "<empty>", "<unknown verb>", "JOIN_REP", "NOTIFY", "STABILIZE",
     "PREDECESSOR"}

NextForeign ==
    \/ \E n \in Nodes : Start(n)
    \/ \E n \in Nodes : JoinSend(n)
    \/ \E n \in Nodes : JoinTimeout(n)
    \/ \E n \in Nodes : JoinRecvRep(n)
    \/ \E n \in Nodes : JoinRecvOther(n)
    \/ \E n \in Nodes : JoinRecvBad(n)
    \/ \E n \in Nodes, m \in net : node_join(n, m)
    \/ \E n \in Nodes, m \in net : get_successor(n, m)
    \/ \E n \in Nodes, m \in net : notify(n, m)
    \/ \E n \in Nodes, m \in net : stabilize(n, m)
    \/ \E n \in Nodes, m \in net : RecvPredecessor(n, m)
    \/ \E n \in Nodes, m \in net : SuccessorRep(n, m)
    \/ \E n \in Nodes, m \in net : Ignore(n, m)
    \/ \E n \in Nodes, m \in net : RecvBad(n, m)
    \/ \E n \in Nodes, m \in net : RecvEmpty(n, m)
    \/ \E n \in Nodes : Timeout(n, ForeignTimeouts)
    \/ \E n \in Nodes, v \in ForeignMethods : Foreign(n, v, ForeignDatagrams)
    \/ \E n, a \in Nodes, id \in 0..(RingSize - 1) :
          ForeignSuccessorRep(n, id, a, ForeignDatagrams)
    \/ \E n, a \in Nodes, id \in 0..(RingSize - 1) :
          ForeignJoinReq(n, id, a, ForeignDatagrams)
    \/ \E n, a \in Nodes, id \in 0..(RingSize - 1) :
          ForeignSuccessor(n, id, a, ForeignDatagrams)

SpecForeign == InitJoin /\ [][NextForeign]_vars

\* ------------------------------------------------ the routing specification

\* A ring of the nodes 1..n that has converged: every node runs its main loop,
\* holds the next node clockwise as successor and the previous one as
\* predecessor, and each finger entry is the node that owns the entry's
\* target; no datagram is in flight.
ConvergedRing(n) ==
    LET S == 1..n
    IN  /\ pc = [a \in S |-> "main"]
        /\ inside_dht = [a \in S |-> TRUE]
        /\ done = [a \in S |-> FALSE]
        /\ successor_id = [a \in S |-> identification(SuccIn(S, a))]
        /\ successor_addr = [a \in S |-> SuccIn(S, a)]
        /\ predecessor_id = [a \in S |-> identification(PredIn(S, a))]
        /\ predecessor_addr = [a \in S |-> PredIn(S, a)]
        /\ finger_table = [a \in S |->
                [i \in 1..MBits |->
                    LET o == OwnerIn(S, FingerTarget(identification(a), i))
                    IN  <<identification(o), o>>]]
        /\ keystore = [a \in S |-> EmptyStore]
        /\ net = {}
        /\ replies = <<>>
        /\ timeouts = 0
        /\ losses = 0
        /\ requests = 0
        /\ call = NoCall
        /\ NoServer
        /\ NoBroker

InitRoute == \E n \in 1..RingNodes : ConvergedRing(n)

\* stabilize(): the lookup node a makes of the target of its finger entry i,
\* with its own address as reply address, arrives at node n.
RefreshLookup(n, a, i, max) ==
    /\ requests < max
    /\ requests' = requests + 1
    /\ net' = Send({Msg(n, a, "SUCCESSOR", <<FingerTarget(identification(a), i), a>>)})
    /\ UNCHANGED <<pc, nodeVars, done, replies, timeouts, losses, call, chatVars, brokerVars>>

\* run(), main loop: the branch that handles a request or a lookup.
Route(n, m) ==
    \/ put(n, m)
    \/ get(n, m)
    \/ get_successor(n, m)
    \/ SuccessorRep(n, m)

NextRoute ==
    \/ \E n \in Nodes, m \in net : Route(n, m)
    \/ \E n \in Nodes, k \in Keys, v \in Values : ClientPut(n, k, v, RingRequests)
    \/ \E n \in Nodes, k \in Keys : ClientGet(n, k, RingRequests)
    \/ \E n, a \in Nodes, i \in 1..MBits : RefreshLookup(n, a, i, RingRequests)

\* The requests and lookups that can be in flight to a node of the ring.
RouteDatagrams ==
    LET N == 1..RingNodes
        Ids == 0..(RingSize - 1)
        Args(method) ==
            CASE method = "PUT" -> {<<k, v>> : k \in Keys, v \in Values}
                                   \cup {<<k, v, Client>> : k \in Keys, v \in Values}
              [] method = "GET" -> {<<k>> : k \in Keys} \cup {<<k, Client>> : k \in Keys}
              [] method = "SUCCESSOR" -> {<<t, a>> : t \in Ids, a \in N}
              [] method = "SUCCESSOR_REP" -> {<<t, i, a>> : t \in Ids, i \in Ids, a \in N}
    IN  UNION {{Msg(dst, src, method, args) : dst \in N, src \in N \cup {Client},
                                               args \in Args(method)}
               : method \in {"PUT", "GET", "SUCCESSOR", "SUCCESSOR_REP"}}

\* Delivery is reliable: every datagram in flight to a node is read.
FairRoute == \A m \in RouteDatagrams : WF_vars(m \in net /\ Route(m.dst, m))

SpecRoute == InitRoute /\ [][NextRoute]_vars /\ FairRoute

\* ------------------------------------- the functions called on their own

\* The nodes whose (id, addr) pairs fill the finger tables of the calls.
CallNodes == 2

\* The width of the identifiers in the program (m_bits), and the identifiers
\* of the ring of that size used in the examples of contains.
m_bits == 10
ExampleIds == {5, 10, 50, 999, 1000}

\* The arguments of the calls: identifiers of the ring and of the examples,
\* and finger tables that hold pairs of the nodes 1..CallNodes.
ContainsInputs == 0..(RingSize - 1) \cup ExampleIds
FingerTables == [1..MBits -> {<<identification(a), a>> : a \in 1..CallNodes}]

ContainsCalls ==
    {[fn |-> "contains", args |-> <<o, b, x>>, returned |-> FALSE, result |-> None]
        : o \in ContainsInputs, b \in ContainsInputs, x \in ContainsInputs}
RefreshCalls ==
    {[fn |-> "refresh", args |-> <<ft, id>>, returned |-> FALSE, result |-> None]
        : ft \in FingerTables, id \in 0..(RingSize - 1)}
GetIdxFromIdCalls ==
    {[fn |-> "getIdxFromId", args |-> <<self_id, id>>, returned |-> FALSE, result |-> None]
        : self_id \in 0..(RingSize - 1), id \in 0..(RingSize - 1)}
FindCalls ==
    {[fn |-> "find", args |-> <<ft, self_id, id>>, returned |-> FALSE, result |-> None]
        : ft \in FingerTables, self_id \in 0..(RingSize - 1), id \in 0..(RingSize - 1)}

\* No node is constructed; one call is about to be made.
InitCalls ==
    /\ pc = <<>>
    /\ inside_dht = <<>>
    /\ done = <<>>
    /\ successor_id = <<>>
    /\ successor_addr = <<>>
    /\ predecessor_id = <<>>
    /\ predecessor_addr = <<>>
    /\ finger_table = <<>>
    /\ keystore = <<>>
    /\ net = {}
    /\ replies = <<>>
    /\ timeouts = 0
    /\ losses = 0
    /\ requests = 0
    /\ \/ call \in ContainsCalls
       \/ call \in RefreshCalls
       \/ call \in GetIdxFromIdCalls
       \/ call \in FindCalls
    /\ NoServer
    /\ NoBroker

\* The call returns result.
Return(fn, result) ==
    /\ call.fn = fn
    /\ ~call.returned
    /\ call' = [call EXCEPT !.returned = TRUE, !.result = result]
    /\ UNCHANGED <<pc, nodeVars, done, net, replies, budgetVars, chatVars, brokerVars>>

CallContains == Return("contains", contains(call.args[1], call.args[2], call.args[3]))
CallRefresh == Return("refresh", refresh(call.args[1], call.args[2]))
CallGetIdxFromId == Return("getIdxFromId", getIdxFromId(call.args[1], call.args[2]))
CallFind == Return("find", find(call.args[1], call.args[2], call.args[3]))

NextCalls ==
    \/ CallContains
    \/ CallRefresh
    \/ CallGetIdxFromId
    \/ CallFind

SpecCalls == InitCalls /\ [][NextCalls]_vars

\* ----------------------------------------------------------- the chat server

\* The channel names the clients use; Server.__init__ creates "main".
ChannelNames == {"main", "cd", "games"}

\* TextMessage.channel when the message names no channel (Python's None).
NoChannel == "<none>"

\* conn in list
Occurs(list, conn) == \E i \in 1..Len(list) : list[i] = conn

\* list.remove(conn): the first occurrence goes.
remove(list, conn) ==
    LET i == CHOOSE j \in 1..Len(list) :
                 list[j] = conn /\ \A k \in 1..(j - 1) : list[k] # conn
    IN  SubSeq(list, 1, i - 1) \o SubSeq(list, i + 1, Len(list))

\* What CDProto.recv_msg gives for a readable connection: None when the size
\* read is 0 (the client closed the connection), a register, join or text
\* message, CDProtoBadFormat, or another exception (a JSON object without
\* "command", a connection reset).
Received_msgs ==
    {[outcome |-> o, type |-> "none", channel |-> NoChannel]
        : o \in {"none", "bad_format", "error"}}
    \cup {[outcome |-> "message", type |-> "register", channel |-> NoChannel]}
    \cup {[outcome |-> "message", type |-> "join", channel |-> c] : c \in ChannelNames}
    \cup {[outcome |-> "message", type |-> "message", channel |-> c]
            : c \in ChannelNames \cup {NoChannel}}

\* No DHT node is constructed.
NoNodes ==
    /\ pc = <<>>
    /\ inside_dht = <<>>
    /\ done = <<>>
    /\ successor_id = <<>>
    /\ successor_addr = <<>>
    /\ predecessor_id = <<>>
    /\ predecessor_addr = <<>>
    /\ finger_table = <<>>
    /\ keystore = <<>>
    /\ net = {}
    /\ replies = <<>>
    /\ timeouts = 0
    /\ losses = 0
    /\ requests = 0
    /\ call = NoCall

dhtVars == <<pc, nodeVars, done, net, replies, budgetVars, call>>

\* Server.__init__: the channel "main" is empty and only the listening socket
\* is registered.
InitServer ==
    /\ channels = [c \in {"main"} |-> <<>>]
    /\ server_selector = {}
    /\ server_closed = {}
    /\ server_accepted = 0
    /\ server_sent = <<>>

\* Server.accept_connection: the new connection is appended to "main" and
\* registered.
accept_connection ==
    /\ server_accepted < ChatConns
    /\ LET conn == server_accepted + 1
       IN  /\ channels' = [channels EXCEPT !["main"] = Append(@, conn)]
           /\ server_selector' = server_selector \cup {conn}
    /\ server_accepted' = server_accepted + 1
    /\ server_sent' = <<>>
    /\ UNCHANGED <<server_closed, dhtVars, brokerVars>>

\* handle_client, except Exception: the connection is unregistered and closed.
HandlerError(conn) ==
    /\ server_selector' = server_selector \ {conn}
    /\ server_closed' = server_closed \cup {conn}
    /\ UNCHANGED channels

\* handle_client, message is None: the connection leaves every channel list it
\* is in, is unregistered and closed.
Disconnect(conn) ==
    /\ channels' = [c \in DOMAIN channels |->
                       IF Occurs(channels[c], conn)
                       THEN remove(channels[c], conn) ELSE channels[c]]
    /\ server_selector' = server_selector \ {conn}
    /\ server_closed' = server_closed \cup {conn}

\* A faulty handle_join that leaves the connection in the channels it was in.
handle_joinKeepsOld(conn, new_channel) ==
    LET created == [c \in DOMAIN channels \cup {new_channel} |->
                       IF c \in DOMAIN channels THEN channels[c] ELSE <<>>]
    IN  [created EXCEPT ![new_channel] = IF Occurs(@, conn) THEN @ ELSE Append(@, conn)]

\* Server.handle_join: the channels after the connection left every channel
\* but new_channel, new_channel was created if missing, and the connection
\* was appended to it unless present.
handle_join(conn, new_channel) ==
    LET left == [c \in DOMAIN channels |->
                    IF Occurs(channels[c], conn) /\ c # new_channel
                    THEN remove(channels[c], conn) ELSE channels[c]]
        created == [c \in DOMAIN left \cup {new_channel} |->
                       IF c \in DOMAIN left THEN left[c] ELSE <<>>]
    IN  [created EXCEPT ![new_channel] = IF Occurs(@, conn) THEN @ ELSE Append(@, conn)]

\* Server.handle_message: the message goes to the connections of its channel
\* in list order.  channels[message.channel] raises KeyError when there is no
\* such channel; send raises on a closed connection, and may raise on an open
\* one (the peer is gone, the buffer of the non-blocking socket is full): the
\* sends stop at the first that raises (failed; 0 when none does).
handle_message(conn, channel) ==
    IF channel \notin DOMAIN channels
    THEN /\ server_sent' = <<>>
         /\ HandlerError(conn)
    ELSE LET list == channels[channel]
         IN  \E failed \in 0..Len(list) :
                /\ \A i \in 1..Len(list) :
                      (failed = 0 \/ i < failed) => list[i] \notin server_closed
                /\ IF failed = 0
                   THEN /\ server_sent' = list
                        /\ UNCHANGED <<channels, server_selector, server_closed>>
                   ELSE /\ server_sent' = SubSeq(list, 1, failed - 1)
                        /\ HandlerError(conn)

\* Server.handle_client for a readable, registered connection.
handle_client(conn, message) ==
    /\ conn \in server_selector
    /\ message \in Received_msgs
    /\ CASE message.outcome = "none" ->
                /\ Disconnect(conn)
                /\ server_sent' = <<>>
         [] message.outcome = "bad_format" ->
                UNCHANGED <<channels, server_selector, server_closed, server_sent>>
         [] message.outcome = "error" ->
                /\ HandlerError(conn)
                /\ server_sent' = <<>>
         [] message.outcome = "message" /\ message.type = "register" ->
                UNCHANGED <<channels, server_selector, server_closed, server_sent>>
         [] message.outcome = "message" /\ message.type = "join" ->
                /\ channels' = handle_join(conn, message.channel)
                /\ server_sent' = <<>>
                /\ UNCHANGED <<server_selector, server_closed>>
         [] message.outcome = "message" /\ message.type = "message" ->
                handle_message(conn, message.channel)
    /\ UNCHANGED <<server_accepted, dhtVars, brokerVars>>

\* ------------------------------------------------ the chat specification

InitChat == NoNodes /\ InitServer /\ NoBroker

\* Server.loop: the selector reports the listening socket or a registered
\* connection as readable and the callback runs to its end.
NextChat ==
    \/ accept_connection
    \/ \E conn \in 1..ChatConns, message \in Received_msgs : handle_client(conn, message)

SpecChat == InitChat /\ [][NextChat]_vars

\* ---------------------------------------------------------------- the broker

\* Topics are paths: the string "/a/b" is the list of its components <<"a", "b">>.
Topics == {<<"a">>, <<"a", "b">>, <<"c">>}

\* class Serializer
Serializers == {"JSON", "XML", "PICKLE"}

\* topic.startswith(prefix + "/"): prefix is a proper ancestor of topic.
startswith(topic, prefix) ==
    Len(prefix) < Len(topic) /\ SubSeq(topic, 1, Len(prefix)) = prefix

\* The requests a client sends: a frame that ends the connection (recv gives
\* no bytes, or the header names no serializer: ValueError), a frame that is
\* dropped (it does not deserialize, or has no command), and the commands.
Requests ==
    {[command |-> c, topic |-> <<>>, data |-> None, serializer |-> "JSON"]
        : c \in {"<closed>", "<dropped>", "list_topics", "<unknown>"}}
    \cup {[command |-> "subscribe", topic |-> t, data |-> None, serializer |-> f]
            : t \in Topics, f \in Serializers}
    \cup {[command |-> "unsubscribe", topic |-> t, data |-> None, serializer |-> f]
            : t \in Topics, f \in {"JSON"}}
    \cup {[command |-> "publish", topic |-> t, data |-> d, serializer |-> f]
            : t \in Topics, d \in 1..NumValues, f \in {"JSON"}}

\* topic in self.subscriptions, and the position of its entry.
Subscribed_topics(subs) == {subs[i].topic : i \in 1..Len(subs)}
Entry(subs, topic) == CHOOSE i \in 1..Len(subs) : subs[i].topic = topic

\* [(sock, ser) for sock, ser in subscribers if sock != client_socket]
Without(subscribers, client_socket) ==
    SelectSeq(subscribers, LAMBDA pair : pair[1] # client_socket)

\* del self.subscriptions[topic] for every topic whose list is empty.
DropEmpty(subs) == SelectSeq(subs, LAMBDA e : e.subscribers # <<>>)

\* Broker.__init__
InitBroker ==
    /\ subscriptions = <<>>
    /\ topics = <<>>
    /\ broker_selector = {}
    /\ broker_closed = {}
    /\ broker_accepted = 0
    /\ broker_handled = 0
    /\ broker_sent = <<>>
    /\ subscribed = {}

\* Broker.accept_connection: the new connection is registered.
broker_accept_connection ==
    /\ broker_accepted < BrokerClients
    /\ broker_selector' = broker_selector \cup {broker_accepted + 1}
    /\ broker_accepted' = broker_accepted + 1
    /\ broker_sent' = <<>>
    /\ UNCHANGED <<subscriptions, topics, broker_closed, broker_handled, subscribed,
                   dhtVars, chatVars>>

\* Broker.subscribe: the topic's list is created if missing and (address,
\* format) appended to it; then the pair is appended to the list of every
\* subscribed subtopic of the topic that does not hold it.
subscribe(subs, topic, address, format) ==
    LET created == IF topic \in Subscribed_topics(subs)
                   THEN subs
                   ELSE Append(subs, [topic |-> topic, subscribers |-> <<>>])
    IN  [i \in 1..Len(created) |->
            IF created[i].topic = topic
            THEN [created[i] EXCEPT !.subscribers = Append(@, <<address, format>>)]
            ELSE IF /\ startswith(created[i].topic, topic)
                    /\ ~Occurs(created[i].subscribers, <<address, format>>)
                 THEN [created[i] EXCEPT !.subscribers = Append(@, <<address, format>>)]
                 ELSE created[i]]

\* Broker.unsubscribe: the client leaves the topic's list; an empty list is deleted.
unsubscribe(subs, topic, client_socket) ==
    IF topic \in Subscribed_topics(subs)
    THEN LET k == Entry(subs, topic)
             left == Without(subs[k].subscribers, client_socket)
         IN  IF left = <<>>
             THEN SubSeq(subs, 1, k - 1) \o SubSeq(subs, k + 1, Len(subs))
             ELSE [subs EXCEPT ![k].subscribers = left]
    ELSE subs

\* Broker.remove_client: the client leaves every list; empty lists are deleted.
remove_client(subs, client_socket) ==
    DropEmpty([i \in 1..Len(subs) |->
                  [subs[i] EXCEPT !.subscribers = Without(@, client_socket)]])

\* The subscriber lists publish visits for topic, one after the other, in the
\* order of self.subscriptions.items().
RECURSIVE Visited(_, _)
Visited(subs, topic) ==
    IF subs = <<>>
    THEN <<>>
    ELSE LET first == Head(subs)
         IN  (IF first.topic = topic \/ startswith(topic, first.topic)
              THEN first.subscribers ELSE <<>>) \o Visited(Tail(subs), topic)

\* The sends publish makes of the pairs it visits: a pair whose client is in
\* notified_clients is skipped.  send on a registered connection is taken to
\* succeed.
RECURSIVE Notify(_, _)
Notify(pairs, notified_clients) ==
    IF pairs = <<>>
    THEN <<>>
    ELSE IF Head(pairs)[1] \in notified_clients
         THEN Notify(Tail(pairs), notified_clients)
         ELSE <<Head(pairs)>> \o Notify(Tail(pairs), notified_clients \cup {Head(pairs)[1]})

\* Broker.publish: the (client, serializer) sends, in order.
publish(subs, topic) == Notify(Visited(subs, topic), {})

\* Broker.put_topic
put_topic(tps, topic, value) ==
    [t \in DOMAIN tps \cup {topic} |-> IF t = topic THEN value ELSE tps[t]]

\* Broker.handle_client and process_request for a readable, registered
\* connection.
broker_handle_client(client_socket, request) ==
    /\ client_socket \in broker_selector
    /\ request \in Requests
    /\ broker_handled < BrokerRequests
    /\ broker_handled' = broker_handled + 1
    /\ CASE request.command = "<closed>" ->
                /\ subscriptions' = remove_client(subscriptions, client_socket)
                /\ broker_selector' = broker_selector \ {client_socket}
                /\ broker_closed' = broker_closed \cup {client_socket}
                /\ subscribed' = {x \in subscribed : x[1] # client_socket}
                /\ broker_sent' = <<>>
                /\ UNCHANGED topics
         [] request.command = "subscribe" ->
                /\ subscriptions' = subscribe(subscriptions, request.topic, client_socket,
                                              request.serializer)
                /\ subscribed' = subscribed \cup
                                    {<<client_socket, request.topic, request.serializer>>}
                /\ broker_sent' = <<>>
                /\ UNCHANGED <<topics, broker_selector, broker_closed>>
         [] request.command = "unsubscribe" ->
                /\ subscriptions' = unsubscribe(subscriptions, request.topic, client_socket)
                /\ subscribed' = {x \in subscribed :
                                     ~(x[1] = client_socket /\ x[2] = request.topic)}
                /\ broker_sent' = <<>>
                /\ UNCHANGED <<topics, broker_selector, broker_closed>>
         [] request.command = "publish" ->
                /\ topics' = put_topic(topics, request.topic, request.data)
                /\ broker_sent' = publish(subscriptions, request.topic)
                /\ UNCHANGED <<subscriptions, broker_selector, broker_closed, subscribed>>
         [] request.command \in {"<dropped>", "list_topics", "<unknown>"} ->
                /\ broker_sent' = <<>>
                /\ UNCHANGED <<subscriptions, topics, broker_selector, broker_closed,
                               subscribed>>
    /\ UNCHANGED <<broker_accepted, dhtVars, chatVars>>

\* ------------------------------------------------ the broker specification

InitPubSub == NoNodes /\ NoServer /\ InitBroker

\* Broker.run: the selector reports the listening socket or a registered
\* connection as readable and the callback runs to its end.
NextPubSub ==
    \/ broker_accept_connection
    \/ \E client_socket \in 1..BrokerClients, request \in Requests :
          broker_handle_client(client_socket, request)

SpecPubSub == InitPubSub /\ [][NextPubSub]_vars

\* ------------------------------------------------------------------ claims

\* The pair a node holds as successor, and the pair that names node a.
Successor(n) == <<successor_id[n], successor_addr[n]>>
Predecessor(n) == <<predecessor_id[n], predecessor_addr[n]>>
Identity(a) == <<identification(a), a>>

\* The replies to PUT and to GET requests, as indices of replies.
PutReplies == {i \in 1..Len(replies) : replies[i].op = "PUT"}
GetReplies == {i \in 1..Len(replies) : replies[i].op = "GET"}

\* C1: two-node join.  Once node 2 (B) has processed a JOIN_REP, which node 1
\* (A) sent on handling B's JOIN_REQ, A's successor is B and B's successor is
\* A, in every interleaving, also when B re-sent JOIN_REQ after a timeout.
C1_TwoNodeJoin ==
    inside_dht[2] => Successor(1) = Identity(2) /\ Successor(2) = Identity(1)

\* The two-node ring after join and stabilization, every datagram handled.
C1_StableRing ==
    /\ net = {}
    /\ Successor(1) = Identity(2) /\ Successor(2) = Identity(1)
    /\ Predecessor(1) = Identity(2) /\ Predecessor(2) = Identity(1)
    /\ \A a \in {1, 2}, i \in 1..MBits :
          finger_table[a][i] = Identity(OwnerIn({1, 2}, FingerTarget(identification(a), i)))

\* C5: a node constructed with no bootstrap address is ACTIVE from
\* construction: before its thread has run it is inside the DHT, its successor
\* is its own (id, addr), its predecessor is null and it has sent nothing; its
\* thread never enters the join loop.
C5_SingletonActive ==
    \A n \in Nodes :
        dht_address(n) = None =>
            /\ inside_dht[n]
            /\ pc[n] \notin {"join_send", "join_recv"}
            /\ pc[n] = "new" =>
                  /\ Successor(n) = Identity(n)
                  /\ Predecessor(n) = <<None, None>>
                  /\ \A m \in net : m.src # n /\ m.dst # n

\* The singleton is constructed and not started while another node is already
\* sending JOIN_REQ.
C5_Witness ==
    \E n, b \in Nodes : dht_address(n) = None /\ pc[n] = "new" /\ pc[b] = "join_recv"

\* The reply a step appends, if it appends one.
Answers == replies' # replies
LastReply == replies'[Len(replies')]

\* C2: ownership determinism.  Over any sequence of PUTs for one key, entering
\* at any node, at most one PUT is ever answered ACK by any node.
C2_OwnershipDeterminism ==
    \A i, j \in PutReplies :
        replies[i].key = replies[j].key
            /\ replies[i].method = "ACK" /\ replies[j].method = "ACK" => i = j

\* Each node accepts a key once: of the PUTs for a key that one node answers,
\* the first is answered ACK and every later one NACK.
OncePerNode ==
    \A j \in PutReplies :
        replies[j].method =
            IF \E i \in PutReplies :
                 i < j /\ replies[i].node = replies[j].node /\ replies[i].key = replies[j].key
            THEN "NACK" ELSE "ACK"

\* C2, amended: a node replies ACK to a PUT only when the key's hashed
\* identifier lies in (predecessor id, own id], and each node accepts a PUT for
\* a key once: the first PUT for the key it answers gets ACK, every later one
\* it answers gets NACK.
C2_PerNodeOwnership ==
    [][/\ OncePerNode'
       /\ Answers /\ LastReply.op = "PUT" /\ LastReply.method = "ACK" =>
             /\ predecessor_id[LastReply.node] # None
             /\ contains(predecessor_id[LastReply.node], identification(LastReply.node),
                         dht_hash(LastReply.key))]_vars

\* A node has answered two PUTs for one key: ACK, then NACK.
C2_Witness ==
    \E i, j \in PutReplies :
        /\ i < j /\ replies[i].node = replies[j].node /\ replies[i].key = replies[j].key
        /\ replies[i].method = "ACK" /\ replies[j].method = "NACK"

\* A GET answered ACK carries a value, and a PUT for the key was ACKed before.
GetAckHasPut ==
    \A j \in GetReplies :
        replies[j].method = "ACK" =>
            \E i \in PutReplies :
                /\ i < j /\ replies[i].key = replies[j].key /\ replies[i].method = "ACK"
                /\ replies[i].value = replies[j].args

\* C3: GET after PUT.  Once a PUT(key, value) has been answered ACK, every
\* later GET for the key that is answered is answered ACK with exactly that
\* value; a GET for a key no PUT was ACKed for is answered NACK.
C3_GetAfterPut ==
    /\ \A i \in PutReplies, j \in GetReplies :
          i < j /\ replies[i].key = replies[j].key /\ replies[i].method = "ACK" =>
              replies[j].method = "ACK" /\ replies[j].args = replies[i].value
    /\ GetAckHasPut

\* C3, amended: once a node has answered a PUT(key, value) with ACK, every
\* later GET for the key that this node answers is answered ACK with exactly
\* that value; a GET for a key no PUT was ACKed for is answered NACK.
C3_GetAfterPutSameNode ==
    /\ \A i \in PutReplies, j \in GetReplies :
          i < j /\ replies[i].key = replies[j].key /\ replies[i].method = "ACK"
                /\ replies[i].node = replies[j].node =>
              replies[j].method = "ACK" /\ replies[j].args = replies[i].value
    /\ GetAckHasPut

\* A PUT was answered ACK and a later GET for the key got ACK and the value.
C3_Witness ==
    \E i \in PutReplies, j \in GetReplies :
        /\ i < j /\ replies[i].key = replies[j].key /\ replies[i].node = replies[j].node
        /\ replies[i].method = "ACK" /\ replies[j].method = "ACK"
        /\ replies[j].args = replies[i].value

\* C4: PUT is insert-only at a node.  No step changes or removes an entry of
\* a keystore; a keystore changes only by gaining the one entry of a PUT that
\* the node answers ACK; a PUT for a present key leaves the keystore unchanged
\* and is answered NACK, a PUT for an absent key is answered ACK.
C4_InsertOnly ==
    [][\A n \in Nodes :
        /\ \A k \in DOMAIN keystore[n] :
              k \in DOMAIN keystore'[n] /\ keystore'[n][k] = keystore[n][k]
        /\ keystore'[n] # keystore[n] =>
              /\ Answers /\ LastReply.node = n /\ LastReply.op = "PUT"
              /\ LastReply.method = "ACK"
        /\ Answers /\ LastReply.node = n /\ LastReply.op = "PUT" =>
              IF LastReply.key \in DOMAIN keystore[n]
              THEN LastReply.method = "NACK" /\ keystore'[n] = keystore[n]
              ELSE /\ LastReply.method = "ACK"
                   /\ DOMAIN keystore'[n] = DOMAIN keystore[n] \cup {LastReply.key}
                   /\ keystore'[n][LastReply.key] = LastReply.value]_vars

\* A node holds a key and has answered a second PUT for it with NACK, the
\* stored value being the first PUT's and not the second's.
C4_Witness ==
    \E i, j \in PutReplies :
        /\ i < j /\ replies[i].node = replies[j].node /\ replies[i].key = replies[j].key
        /\ replies[j].method = "NACK" /\ replies[i].value # replies[j].value
        /\ keystore[replies[i].node][replies[i].key] = replies[i].value

\* C8: at every node that is inside the DHT, finger-table entry 1 equals the
\* node's current successor (id, addr).
C8_FingerOneIsSuccessor ==
    \A n \in Nodes : inside_dht[n] => finger_table[n][1] = Successor(n)

\* A datagram that a step of node n reads (it leaves the network and is not lost).
Reads(n, m) == m \in net /\ m \notin net' /\ m.dst = n /\ losses' = losses

\* The whole state a node owns.
NodeState(n) == <<inside_dht[n], successor_id[n], successor_addr[n], predecessor_id[n],
                  predecessor_addr[n], finger_table[n], keystore[n]>>

\* A payload that is no pickle, an unknown verb, or a verb without its args.
Malformed(m) ==
    \/ m.method \in {"<undecodable>", "<unknown verb>"}
    \/ m.method \in ArgVerbs \cup {"JOIN_REP"} /\ Len(m.args) = 0

\* C6: message resilience.  A node, JOINING or ACTIVE, that reads a malformed
\* datagram drops it: its state is unchanged and its loop keeps running.
C6_MessageResilience ==
    [][\A n \in Nodes, m \in net :
        Reads(n, m) /\ Malformed(m) =>
            NodeState(n)' = NodeState(n) /\ pc'[n] \in {"join_send", "main"}]_vars

\* C7: a SUCCESSOR_REP whose req_id no finger index covers is a no-op: the
\* node's state is unchanged and it keeps processing messages.
C7_IndexLookupNoOp ==
    [][\A n \in Nodes, m \in net :
        /\ Reads(n, m) /\ pc[n] = "main"
        /\ m.method = "SUCCESSOR_REP" /\ Len(m.args) = 3
        /\ getIdxFromId(identification(n), m.args[1]) = None
        => NodeState(n)' = NodeState(n) /\ pc'[n] = "main"]_vars

\* A node is in the join loop.
Joining(n) == pc[n] \in {"join_send", "join_recv"}

\* The JOIN_REQ a joining node sends.
JoinReq(n) == Msg(dht_address(n), n, "JOIN_REQ", Identity(n))

C10_StopsWhenDone ==
    \A n \in 1..JoinNodes :
        (done[n] /\ pc[n] # "new") ~> (pc[n] \in {"stopped", "crashed"})

\* In the ring of all the nodes, every node holds the next node clockwise as
\* successor and the previous node clockwise as predecessor.
RingConverged ==
    \A n \in Nodes :
        /\ Successor(n) = Identity(SuccIn(Nodes, n))
        /\ Predecessor(n) = Identity(PredIn(Nodes, n))

\* C11: when every node joins, every datagram is delivered and every node keeps
\* running stabilization rounds, eventually and from then on every node's
\* successor is the next node clockwise and its predecessor the previous one.
C11_RingConvergence ==
    (\A n \in 1..JoinNodes : []<><<StabilizeRound(n)>>_vars) => <>[]RingConverged

\* The ring of all the nodes has formed, with no datagram of a join left.
C11_Witness ==
    /\ RingConverged
    /\ \A m \in net : m.method \notin {"JOIN_REQ", "JOIN_REP"}

\* The number of fields of a client's request, and the requester's address
\* with the fields a relayed copy of request m carries.
Fields(m) == IF m.method = "PUT" THEN 2 ELSE 1
Requester(m) == IF Len(m.args) = Fields(m) + 1 THEN m.args[Fields(m) + 1] ELSE m.src
Relayed(m) == SubSeq(m.args, 1, Fields(m)) \o <<Requester(m)>>

\* C12: a node that handles a PUT or GET either answers it, with an ACK or
\* NACK for the request's key (and value) sent to the requester's address (the
\* from field, or the sender of a request that has none), or relays it with
\* the same key and value and that address as from field; so every relayed
\* request carries the client's address and every reply goes to the client,
\* never to a relaying node.
C12_RequesterAddress ==
    /\ [][\A n \in Nodes, m \in net :
            Reads(n, m) /\ m.method \in {"PUT", "GET"} /\ pc'[n] = "main" =>
                \/ /\ Answers
                   /\ LastReply.node = n /\ LastReply.to = Requester(m)
                   /\ LastReply.op = m.method /\ LastReply.key = m.args[1]
                   /\ m.method = "PUT" => LastReply.value = m.args[2]
                   /\ net' = net \ {m}
                \/ /\ ~Answers
                   /\ \E d \in Nodes :
                         net' = (net \ {m}) \cup {Msg(d, n, m.method, Relayed(m))}]_vars
    /\ [](/\ \A i \in 1..Len(replies) : replies[i].to = Client
          /\ \A m \in net : m.method \in {"PUT", "GET"} /\ m.src \in Nodes =>
                Len(m.args) = Fields(m) + 1 /\ Requester(m) = Client)

\* A reply has gone to the client while a request relayed by a node is in flight.
C12_Witness ==
    /\ \E i \in 1..Len(replies) : replies[i].to = Client
    /\ \E m \in net : m.method \in {"PUT", "GET"} /\ m.src \in Nodes /\ Requester(m) = Client

\* Clockwise distance in the ring of the program's size, and membership of
\* the clockwise interval (origin, boundary] of that ring.
ExampleDist(a, b) == (b - a + 2 ^ m_bits) % (2 ^ m_bits)
InInterval(origin, boundary, id) ==
    0 < ExampleDist(origin, id) /\ ExampleDist(origin, id) <= ExampleDist(origin, boundary)

\* C13: contains(origin, boundary, id) is true exactly when id lies in the
\* clockwise interval (origin, boundary], origin excluded and boundary
\* included, wrapping when boundary < origin; in the ring of size 1024,
\* contains(1000, 50, 0) and contains(5, 10, 10) are true, contains(1000, 50, 999)
\* and contains(5, 10, 5) are false.
C13_Contains ==
    call.fn = "contains" /\ call.returned =>
        /\ call.result = InInterval(call.args[1], call.args[2], call.args[3])
        /\ call.args \in {<<1000, 50, 0>>, <<5, 10, 10>>} => call.result = TRUE
        /\ call.args \in {<<1000, 50, 999>>, <<5, 10, 5>>} => call.result = FALSE

\* contains has returned for an interval that wraps, with the id past the modulus.
C13_Witness ==
    call.fn = "contains" /\ call.returned /\ call.args = <<1000, 50, 0>>

\* C17: refresh() lists, for every index i in 1..m, the triple (i,
\* (self.id + 2^(i-1)) mod 2^m, address cached in entry i); getIdxFromId of
\* the target of index i is i, so that the update made for the answer of the
\* lookup of entry i changes entry i and no other.
C17_RefreshRoundTrip ==
    /\ call.fn = "refresh" /\ call.returned =>
          LET ft == call.args[1]
              id == call.args[2]
          IN  /\ DOMAIN call.result = 1..MBits
              /\ \A i \in 1..MBits :
                    call.result[i] = <<i, (id + 2 ^ (i - 1)) % (2 ^ MBits), ft[i][2]>>
    /\ call.fn = "getIdxFromId" /\ call.returned =>
          \A i \in 1..MBits :
              call.args[2] = (call.args[1] + 2 ^ (i - 1)) % (2 ^ MBits) =>
                  /\ call.result = i
                  /\ \A ft \in FingerTables, j \in 1..MBits :
                        /\ update(ft, call.result, None, None)[i] = <<None, None>>
                        /\ j # i => update(ft, call.result, None, None)[j] = ft[j]

\* getIdxFromId has returned the index of the last entry for that entry's target.
C17_Witness ==
    /\ call.fn = "getIdxFromId" /\ call.returned
    /\ call.args[2] = (call.args[1] + 2 ^ (MBits - 1)) % (2 ^ MBits)
    /\ call.result = MBits

\* The identifier id lies in the clockwise interval (origin, boundary] of the
\* ring, and strictly inside it.
InRing(origin, boundary, id) ==
    0 < Dist(origin, id) /\ Dist(origin, id) <= Dist(origin, boundary)
StrictlyInRing(origin, boundary, id) ==
    0 < Dist(origin, id) /\ Dist(origin, id) < Dist(origin, boundary)

\* A step receives m and sends exactly msgs (those to a bound socket arrive).
Emits(m, msgs) ==
    net' = (net \ {m}) \cup {x \in msgs : x.dst \in Nodes /\ pc[x.dst] # "new"}

\* A step of node n changes nothing of the node but what the tuple shows.
Changes(n, fields) ==
    /\ pc'[n] = pc[n]
    /\ inside_dht'[n] = inside_dht[n]
    /\ keystore'[n] = keystore[n]
    /\ "successor" \notin fields => Successor(n)' = Successor(n)
    /\ "predecessor" \notin fields => Predecessor(n)' = Predecessor(n)
    /\ "finger_table" \notin fields => finger_table'[n] = finger_table[n]

\* C14: an ACTIVE node that handles JOIN_REQ(id, addr) takes exactly one of
\* three branches: (1) it is its own successor: the requester becomes its
\* successor, every finger entry is the requester and JOIN_REP names this
\* node; (2) else the id lies in (own id, successor id]: the requester becomes
\* the successor, every finger entry is the requester and JOIN_REP carries
\* the old successor; (3) else the JOIN_REQ goes unchanged to the successor
\* and no state changes.  JOIN_REP goes to the address given in the args.
C14_JoinReqBranches ==
    [][\A n \in Nodes, m \in net :
        Reads(n, m) /\ pc[n] = "main" /\ m.method = "JOIN_REQ" /\ Len(m.args) = 2 =>
            LET spliced(rep) ==
                    /\ Successor(n)' = m.args
                    /\ finger_table'[n] = [i \in 1..MBits |-> m.args]
                    /\ Changes(n, {"successor", "finger_table"})
                    /\ Emits(m, {Msg(m.args[2], n, "JOIN_REP", rep)})
            IN  IF successor_id[n] = identification(n)
                THEN spliced(Identity(n))
                ELSE IF InRing(identification(n), successor_id[n], m.args[1])
                THEN spliced(Successor(n))
                ELSE /\ Changes(n, {})
                     /\ Emits(m, {Msg(successor_addr[n], n, "JOIN_REQ", m.args)})]_vars

\* A node has passed on the JOIN_REQ of another address to its successor.
C14_Witness ==
    \E m \in net : m.method = "JOIN_REQ" /\ m.src \in Nodes /\ m.args[2] # m.src

\* C15: a JOINING node that processes JOIN_REP(successor_id, successor_addr)
\* sets its successor to that pair, fills all m finger entries with it and
\* becomes ACTIVE; a JOIN_REP read by an ACTIVE node changes no state and
\* sends no message.
C15_JoinRepOnlyWhenJoining ==
    [][\A n \in Nodes, m \in net :
        Reads(n, m) /\ m.method = "JOIN_REP" /\ Len(m.args) = 2 =>
            /\ net' = net \ {m}
            /\ IF Joining(n)
               THEN /\ Successor(n)' = m.args
                    /\ finger_table'[n] = [i \in 1..MBits |-> m.args]
                    /\ inside_dht'[n] /\ pc'[n] = "main"
                    /\ Predecessor(n)' = Predecessor(n) /\ keystore'[n] = keystore[n]
               ELSE NodeState(n)' = NodeState(n) /\ pc'[n] = pc[n]]_vars

\* A node that became ACTIVE on one JOIN_REP has another, naming another
\* successor, in flight to it.
C15_Witness ==
    \E m \in net :
        /\ m.method = "JOIN_REP" /\ pc[m.dst] = "main" /\ dht_address(m.dst) # None
        /\ m.args # Successor(m.dst)

\* C16: a node that handles SUCCESSOR(target id, reply address) sends, if the
\* target lies in (own id, successor id], SUCCESSOR_REP {req_id = target,
\* its successor (id, addr)} to the reply address of the request, not to the
\* sender; otherwise it sends SUCCESSOR with the same target and reply address
\* to its successor.  Its own state is unchanged.
C16_SuccessorLookup ==
    [][\A n \in Nodes, m \in net :
        Reads(n, m) /\ pc[n] = "main" /\ m.method = "SUCCESSOR" /\ Len(m.args) = 2 =>
            /\ Changes(n, {})
            /\ IF InRing(identification(n), successor_id[n], m.args[1])
               THEN Emits(m, {Msg(m.args[2], n, "SUCCESSOR_REP",
                                  <<m.args[1]>> \o Successor(n))})
               ELSE Emits(m, {Msg(successor_addr[n], n, "SUCCESSOR", m.args)})]_vars

\* A node has answered a lookup that the reply's receiver never issued: the
\* request came from another sender and named that receiver as reply address.
C16_Witness ==
    \E m \in net :
        /\ m.method = "SUCCESSOR_REP" /\ m.src \in Nodes
        /\ \A i \in 1..MBits : m.args[1] # FingerTarget(identification(m.dst), i)

\* C18: a node that handles NOTIFY(id, addr) adopts the pair as predecessor if
\* and only if it has no predecessor or the id lies in (predecessor id, own
\* id]; otherwise the predecessor is unchanged.  Successor, finger table and
\* keystore are unchanged and no message is sent.
C18_Notify ==
    [][\A n \in Nodes, m \in net :
        Reads(n, m) /\ pc[n] = "main" /\ m.method = "NOTIFY" /\ Len(m.args) = 2 =>
            /\ net' = net \ {m}
            /\ Changes(n, {"predecessor"})
            /\ Predecessor(n)' =
                  IF predecessor_id[n] = None
                     \/ InRing(predecessor_id[n], identification(n), m.args[1])
                  THEN m.args ELSE Predecessor(n)]_vars

\* A node that has adopted a predecessor has a NOTIFY of another node, which is
\* not closer, in flight to it.
C18_Witness ==
    \E m \in net :
        /\ m.method = "NOTIFY" /\ pc[m.dst] = "main"
        /\ predecessor_id[m.dst] # None /\ m.args # Predecessor(m.dst)
        /\ ~InRing(predecessor_id[m.dst], identification(m.dst), m.args[1])

\* C19: a node that handles STABILIZE(p) changes its successor if and only if
\* p is non-null and lies strictly between its own id and its successor id,
\* and then the node with id p is its new successor and its finger entry 1;
\* when p is null, its own id, its successor id or outside the interval, the
\* successor is unchanged.
C19_StabilizeTightening ==
    [][\A n \in Nodes, m \in net :
        Reads(n, m) /\ pc[n] = "main" /\ m.method = "STABILIZE" /\ Len(m.args) = 1 =>
            IF m.args[1] # None
               /\ StrictlyInRing(identification(n), successor_id[n], m.args[1])
            THEN \E a \in Nodes :
                    /\ identification(a) = m.args[1]
                    /\ Successor(n)' = Identity(a)
                    /\ finger_table'[n][1] = Identity(a)
            ELSE Successor(n)' = Successor(n)]_vars

\* The datagram that starts the lookup of entry i's target at node n, whose
\* successor is succ: the answer when n can give it itself, or the SUCCESSOR
\* request to the successor, both with n's address as reply address.
Lookup(n, succ, i) ==
    LET target == (identification(n) + 2 ^ (i - 1)) % (2 ^ MBits)
    IN  IF InRing(identification(n), succ[1], target)
        THEN Msg(n, n, "SUCCESSOR_REP", <<target>> \o succ)
        ELSE Msg(succ[2], n, "SUCCESSOR", <<target, n>>)

\* C20: every handled STABILIZE, whether or not it changed the successor,
\* sends one NOTIFY carrying the node's own (id, addr) to the successor as it
\* is after the step, and starts one lookup for each of the m refresh targets
\* with the node's own address as reply address; nothing else is sent.
C20_StabilizeSends ==
    [][\A n \in Nodes, m \in net :
        Reads(n, m) /\ pc[n] = "main" /\ m.method = "STABILIZE" /\ Len(m.args) = 1 =>
            Emits(m, {Msg(successor_addr'[n], n, "NOTIFY", Identity(n))}
                     \cup {Lookup(n, Successor(n)', i) : i \in 1..MBits})]_vars

\* A node's NOTIFY and a SUCCESSOR request with the node's address as reply
\* address are in flight to its successor.
C20_Witness ==
    \E n \in Nodes, t \in 0..(RingSize - 1) :
        /\ pc[n] = "main" /\ successor_addr[n] # n
        /\ Msg(successor_addr[n], n, "NOTIFY", Identity(n)) \in net
        /\ Msg(successor_addr[n], n, "SUCCESSOR", <<t, n>>) \in net

\* C21: an ACTIVE node whose receive times out or returns a zero-length payload
\* sends exactly one PREDECESSOR to its current successor and changes no local
\* state; a node that reads PREDECESSOR answers its sender with STABILIZE
\* carrying its current predecessor id, null included, and changes no local
\* state.
C21_StabilizationTrigger ==
    [][/\ timeouts' # timeouts =>
            \E n \in Nodes :
                /\ pc[n] = "main"
                /\ net' = Send({Msg(successor_addr[n], n, "PREDECESSOR", <<>>)})
                /\ \A a \in Nodes : NodeState(a)' = NodeState(a) /\ pc'[a] = pc[a]
       /\ \A n \in Nodes, m \in net :
            Reads(n, m) /\ pc[n] = "main" =>
                /\ m.method = "<empty>" =>
                      /\ Emits(m, {Msg(successor_addr[n], n, "PREDECESSOR", <<>>)})
                      /\ Changes(n, {})
                /\ m.method = "PREDECESSOR" =>
                      /\ Emits(m, {Msg(m.src, n, "STABILIZE", <<predecessor_id[n]>>)})
                      /\ Changes(n, {})]_vars

\* A node has answered a PREDECESSOR with the id of the predecessor it has.
C21_Witness ==
    \E m \in net :
        /\ m.method = "STABILIZE" /\ m.src \in Nodes
        /\ m.args[1] # None /\ m.args[1] = predecessor_id[m.src]

\* A step of node n reads the well-formed PUT or GET m in its main loop.
ReadsRequest(n, m) ==
    /\ Reads(n, m) /\ pc[n] = "main"
    /\ m.method \in {"PUT", "GET"} /\ Len(m.args) \in {Fields(m), Fields(m) + 1}

\* The step that reads request m at node n passes it on to address to, and
\* answers nothing.
ForwardsTo(n, m, to) ==
    /\ Emits(m, {Msg(to, n, m.method, Relayed(m))})
    /\ replies' = replies /\ keystore' = keystore

\* The step that reads request m at node n answers it and passes nothing on.
AnswersRequest(n, m) ==
    /\ net' = net \ {m}
    /\ Answers /\ LastReply.node = n /\ LastReply.op = m.method
    /\ LastReply.key = m.args[1] /\ LastReply.to = Requester(m)

\* C22: a node routes a PUT or GET in this order: key id in (own id, successor
\* id]: forward to the successor; else key id in (predecessor id, own id]:
\* answer; else forward to the address find(key id) gives.  With a null
\* predecessor and the key not in (own id, successor id], the request is
\* forwarded via the finger table, is not stored, and the node does not fail.
C22_RoutingOrder ==
    [][\A n \in Nodes, m \in net :
        ReadsRequest(n, m) =>
            LET key_id == dht_hash(m.args[1])
            IN  /\ pc'[n] = "main"
                /\ IF InRing(identification(n), successor_id[n], key_id)
                   THEN ForwardsTo(n, m, successor_addr[n])
                   ELSE IF predecessor_id[n] # None
                           /\ InRing(predecessor_id[n], identification(n), key_id)
                   THEN AnswersRequest(n, m)
                   ELSE ForwardsTo(n, m, find(finger_table[n], identification(n), key_id))]_vars

\* C23: GET makes the ownership decision of PUT: in every state of every node
\* and for every key, get and put take the same branch (to the successor,
\* answered here, via the finger table) and send to the same address; and a
\* GET that a node handles changes no keystore and no other state of any node.
C23_GetAsPut ==
    /\ [](\A n \in Nodes, k \in Keys :
            inside_dht[n] => get_branch(n, dht_hash(k)) = put_branch(n, dht_hash(k)))
    /\ [][\A n \in Nodes, m \in net :
            Reads(n, m) /\ pc[n] = "main" /\ m.method = "GET" =>
                \A a \in Nodes : NodeState(a)' = NodeState(a)]_vars

\* A node has stored a key, and a node that can place the key neither at its
\* successor nor at itself has passed on a GET for it.
C23_Witness ==
    \E m \in net, i \in PutReplies :
        /\ m.method = "GET" /\ m.src \in Nodes /\ m.dst # successor_addr[m.src]
        /\ replies[i].method = "ACK" /\ replies[i].key = m.args[1]

\* C24: no key migration.  A node's keystore is changed only by a PUT that the
\* node handles as owner, and only by gaining that PUT's entry; a step that
\* reads any other datagram, passes a PUT on or is a timeout leaves every
\* keystore unchanged, so an entry stays at the node it was stored at, also
\* after a join has made another node responsible for the key.
C24_NoKeyMigration ==
    [][/\ \A n \in Nodes :
            /\ \A k \in DOMAIN keystore[n] :
                  k \in DOMAIN keystore'[n] /\ keystore'[n][k] = keystore[n][k]
            /\ keystore'[n] # keystore[n] =>
                  \E m \in net :
                      /\ ReadsRequest(n, m) /\ m.method = "PUT"
                      /\ predecessor_id[n] # None
                      /\ InRing(predecessor_id[n], identification(n), dht_hash(m.args[1]))
                      /\ ~InRing(identification(n), successor_id[n], dht_hash(m.args[1]))
                      /\ AnswersRequest(n, m)
                      /\ DOMAIN keystore'[n] = DOMAIN keystore[n] \cup {m.args[1]}
                      /\ \A a \in Nodes \ {n} : keystore'[a] = keystore[a]
       /\ (\E n \in Nodes, m \in net : Reads(n, m) /\ m.method # "PUT") => keystore' = keystore
       /\ (\E n \in Nodes, m \in net : Reads(n, m) /\ m.method = "PUT" /\ ~Answers) =>
              keystore' = keystore
       /\ timeouts' # timeouts => keystore' = keystore]_vars

\* A node holds a key that, since a node joined before it, lies outside the
\* interval (predecessor id, own id] the node is responsible for.
C24_Witness ==
    \E n \in Nodes, k \in Keys :
        /\ k \in DOMAIN keystore[n] /\ predecessor_id[n] # None
        /\ ~InRing(predecessor_id[n], identification(n), dht_hash(k))

\* C25: find(target) returns the address of the closest preceding node of
\* target in the finger table.  With first the first entry, in index order,
\* whose id e satisfies contains(self id, e, target), entry 1 included, the
\* address returned is that of a table entry whose id lies clockwise between
\* the node's id and target, and no entry scanned before it lies between them
\* closer to target.  When no entry matches, it is the last entry's address.
C25_FindClosestPreceding ==
    call.fn = "find" /\ call.returned =>
        LET ft == call.args[1]
            self_id == call.args[2]
            target == call.args[3]
            between(e) == Dist(self_id, e) <= Dist(self_id, target)
            hits == {i \in 1..MBits : InRing(self_id, ft[i][1], target)}
            first == CHOOSE i \in hits : \A k \in hits : i <= k
        IN  IF hits = {}
            THEN call.result = ft[MBits][2]
            ELSE \E j \in 1..MBits :
                    /\ call.result = ft[j][2]
                    /\ between(ft[j][1])
                    /\ \A k \in 1..(first - 1) :
                          between(ft[k][1]) =>
                              Dist(ft[j][1], target) <= Dist(ft[k][1], target)

\* In the ring of the nodes that run: the node that answers a request for
\* key id t, and the one that answers a lookup of t.
Owner(t) == OwnerIn(Nodes, t)
Answerer(t) == PredIn(Nodes, Owner(t))

\* C26: routing progress.  In a converged ring with refreshed finger tables,
\* a node that reads a PUT or GET answers it if it owns the key, with one ACK
\* or NACK to the requester, and otherwise passes it on to a node strictly
\* closer clockwise to the key's owner, never past it; so every request reaches
\* the owner within N hops, and no request is passed on for ever.
C26_RoutingProgress ==
    /\ [][\A n \in Nodes, m \in net :
            ReadsRequest(n, m) =>
                LET owner == identification(Owner(dht_hash(m.args[1])))
                IN  IF identification(n) = owner
                    THEN AnswersRequest(n, m)
                    ELSE \E a \in Nodes :
                            /\ ForwardsTo(n, m, a)
                            /\ Dist(identification(a), owner) < Dist(identification(n), owner)]_vars
    /\ <>[](\A m \in net : m.method \notin {"PUT", "GET"})

\* C30: SUCCESSOR lookups terminate.  In a ring of N >= 1 nodes whose
\* successors form the cycle, the node n with the target in (n, successor(n)]
\* answers a SUCCESSOR request with one SUCCESSOR_REP, naming its successor, to
\* the reply address; every other node passes the request on unchanged to its
\* successor, one hop nearer to that node, so a request is passed on at most
\* N-1 times; and no request stays in flight for ever.
C30_LookupTerminates ==
    /\ [][\A n \in Nodes, m \in net :
            Reads(n, m) /\ m.method = "SUCCESSOR" /\ Len(m.args) = 2 =>
                LET answerer == identification(Answerer(m.args[1]))
                IN  IF identification(n) = answerer
                    THEN Emits(m, {Msg(m.args[2], n, "SUCCESSOR_REP",
                                       <<m.args[1]>> \o Identity(SuccIn(Nodes, n)))})
                    ELSE /\ Emits(m, {Msg(SuccIn(Nodes, n), n, "SUCCESSOR", m.args)})
                         /\ Dist(identification(SuccIn(Nodes, n)), answerer)
                               < Dist(identification(n), answerer)]_vars
    /\ <>[](\A m \in net : m.method # "SUCCESSOR")

\* The pair (id, addr) names one real node: id is the identifier of the node
\* whose address is addr.
RealNode(pair) == pair[2] \in Nodes /\ pair[1] = identification(pair[2])

\* C27: routing pairs stay consistent.  In every reachable state each (id,
\* addr) pair a node holds as successor, as predecessor or in a finger entry
\* names one real node; in particular the successor a STABILIZE makes a node
\* adopt is stored with the address of the node that has that id.
C27_PairsConsistent ==
    \A n \in Nodes :
        /\ inside_dht[n] => RealNode(Successor(n))
        /\ predecessor_id[n] # None => RealNode(Predecessor(n))
        /\ \A i \in 1..MBits : RealNode(finger_table[n][i])

\* C28: a node that joined through a bootstrap never has itself as successor:
\* no JOIN_REP names the node it is sent to as that node's successor, in any
\* interleaving in which a JOINING node re-sends JOIN_REQ after timeouts and
\* the duplicates and their JOIN_REPs arrive late or out of order.
C28_NeverOwnSuccessor ==
    /\ \A m \in net :
          m.method = "JOIN_REP" /\ Len(m.args) = 2 => m.args # Identity(m.dst)
    /\ \A n \in Nodes :
          dht_address(n) # None /\ inside_dht[n] => successor_addr[n] # n

\* C29: an ACTIVE node always has a successor: in every reachable state,
\* inside_dht true implies that successor id and successor address are both
\* non-null, so every send to successor_addr has a destination.
C29_ActiveHasSuccessor ==
    \A n \in Nodes :
        inside_dht[n] => successor_id[n] # None /\ successor_addr[n] # None

\* A node that joined through a bootstrap is ACTIVE and has been notified by
\* a predecessor, so stabilization rounds have run in the ring it is in.
C29_Witness ==
    \E n \in Nodes :
        /\ dht_address(n) # None /\ inside_dht[n] /\ pc[n] = "main"
        /\ predecessor_id[n] # None

\* The number of times conn occurs in list.
Count(list, conn) == Cardinality({i \in 1..Len(list) : list[i] = conn})

\* conn is in the list of channel ch, in the channels chs.
MemberOf(chs, conn, ch) == ch \in DOMAIN chs /\ Occurs(chs[ch], conn)

\* C31: chat server channel membership.  After any sequence of accepts, join
\* messages, text messages, bad-format messages, handler errors and
\* disconnects, every connection still registered with the selector is in
\* exactly one channel list and occurs there once, no channel list holds a
\* connection that has been unregistered and closed, an accepted connection is
\* in main and a connection whose join was handled is in the joined channel.
C31_ChannelMembership ==
    /\ [](\A conn \in server_selector :
            \E ch \in DOMAIN channels :
                /\ Count(channels[ch], conn) = 1
                /\ \A other \in DOMAIN channels \ {ch} : Count(channels[other], conn) = 0)
    /\ [](\A ch \in DOMAIN channels : \A i \in 1..Len(channels[ch]) :
            channels[ch][i] \notin server_closed)
    /\ [][/\ accept_connection => MemberOf(channels', server_accepted', "main")
          /\ \A conn \in 1..ChatConns, ch \in ChannelNames :
                handle_client(conn, [outcome |-> "message", type |-> "join", channel |-> ch])
                    => MemberOf(channels', conn, ch)]_vars

\* Topic t is topic T or an ancestor of T on the topic tree.
AncestorOrSelf(t, T) == Len(t) <= Len(T) /\ SubSeq(T, 1, Len(t)) = t

\* The serializers of the subscriptions of client in force that cover topic T.
FormatsDue(client, T) ==
    {f \in Serializers : \E t \in Topics :
        <<client, t, f>> \in subscribed /\ AncestorOrSelf(t, T)}

\* C32: broker delivery.  A publish on topic T sends the message exactly once
\* to every client that is subscribed to T or to an ancestor of T when it is
\* published, serialized in a format of such a subscription of that client,
\* and to no other client: a client that has unsubscribed from a topic, or
\* was removed on disconnect, receives nothing more through that
\* subscription, on the topic or on its subtopics.
C32_BrokerDelivery ==
    [][\A client_socket \in 1..BrokerClients, request \in Requests :
          request.command = "publish" /\ broker_handle_client(client_socket, request) =>
              /\ \A client \in 1..BrokerClients :
                    Cardinality({i \in 1..Len(broker_sent') : broker_sent'[i][1] = client})
                        = IF FormatsDue(client, request.topic) # {} THEN 1 ELSE 0
              /\ \A i \in 1..Len(broker_sent') :
                    broker_sent'[i][2] \in FormatsDue(broker_sent'[i][1], request.topic)]_vars

====
